---- MODULE Spec2Model ----
(***************************************************************************)
(* Study_Room_Bot: the calendar layout engine (bot/calendar_render.py),    *)
(* the week resolver and the weekly scrape (bot/scraper.py, rmit_booker.py),*)
(* the session token check (bot/session_check.py) and the handlers and the *)
(* refresher loop of the bot (bot/main.py).                                *)
(*                                                                         *)
(* Hours are Python floats in the source.  Here a time is an integer count *)
(* of 1/3,000,000 hour, the coarsest unit in which one minute (1/60 h),    *)
(* the merge tolerance (1e-6 h) and the grouping precision (1e-4 h) are    *)
(* all whole numbers.  Dates are day ordinals, clock readings of time.time *)
(* are milliseconds, token expiries are seconds.                           *)
(***************************************************************************)
EXTENDS Integers, Sequences, FiniteSets, TLC

UnitsPerHour == 3 * 1000 * 1000
UnitsPerMinute == UnitsPerHour \div 60

\* eps: float = 1e-6 (hours), the default of _merge_same_room
Eps == UnitsPerHour \div 1000000

\* round(x, 4): four decimals of an hour
RoundGrid == UnitsPerHour \div 10000

\* 1e-9 (hours) in _assign_lanes is less than one unit: for whole numbers of
\* units x and y, x >= y - 1e-9 h exactly when x >= y - LaneEps
LaneEps == UnitsPerHour \div 1000000000

\* render_week(..., min_hour=8, max_hour=20)
min_hour == 8 * UnitsPerHour
max_hour == 20 * UnitsPerHour

\* Python's None for room_code: a value no room code of the inputs equals
None == "<None>"

Max(a, b) == IF a >= b THEN a ELSE b
Min(a, b) == IF a <= b THEN a ELSE b

Range(s) == {s[i] : i \in 1..Len(s)}

\* Event(day_index, start_hour, end_hour, room_code, ignored)
Event(day, s, e, room, ign) ==
    [day_index |-> day, start_hour |-> s, end_hour |-> e,
     room_code |-> room, ignored |-> ign]

-----------------------------------------------------------------------------
(* _clamp_interval: <<>> stands for None, <<s, e>> for the clamped pair *)
_clamp_interval_never_none(start, end, lo, hi) == <<Max(start, lo), Min(end, hi)>>
_clamp_interval(start, end, lo, hi) ==
    LET s == Max(start, lo)
        e == Min(end, hi)
    IN  IF e <= lo \/ s >= hi \/ e <= s THEN <<>> ELSE <<s, e>>

-----------------------------------------------------------------------------
(* list.sort(key=lambda e: (e.start_hour, e.end_hour)) : a stable sort *)
StartEndKeyLeq(a, b) ==
    \/ a.start_hour < b.start_hour
    \/ a.start_hour = b.start_hour /\ a.end_hour <= b.end_hour

\* insert x behind every element whose key is <= x's key (stability)
RECURSIVE InsertStartEnd(_, _)
InsertStartEnd(sorted, x) ==
    IF sorted = <<>> THEN <<x>>
    ELSE LET last == sorted[Len(sorted)]
         IN  IF StartEndKeyLeq(last, x) THEN Append(sorted, x)
             ELSE Append(InsertStartEnd(SubSeq(sorted, 1, Len(sorted) - 1), x), last)

RECURSIVE SortStartEndFrom(_, _, _)
SortStartEndFrom(lst, i, acc) ==
    IF i > Len(lst) THEN acc
    ELSE SortStartEndFrom(lst, i + 1, InsertStartEnd(acc, lst[i]))

SortStartEnd(lst) == SortStartEndFrom(lst, 1, <<>>)

-----------------------------------------------------------------------------
(* _merge_same_room *)

\* the key of by_key: (ev.day_index, ev.room_code)
MergeKey(ev) == <<ev.day_index, ev.room_code>>

\* by_key.items(): the keys in order of first insertion
RECURSIVE MergeKeysFrom(_, _, _)
MergeKeysFrom(evs, i, keys) ==
    IF i > Len(evs) THEN keys
    ELSE MergeKeysFrom(evs, i + 1,
            IF MergeKey(evs[i]) \in Range(keys) THEN keys
            ELSE Append(keys, MergeKey(evs[i])))

\* by_key[k]: the events of key k in input order
RECURSIVE MergeGroupFrom(_, _, _, _)
MergeGroupFrom(evs, k, i, acc) ==
    IF i > Len(evs) THEN acc
    ELSE MergeGroupFrom(evs, k, i + 1,
            IF MergeKey(evs[i]) = k THEN Append(acc, evs[i]) ELSE acc)

\* lst.sort(key=lambda e: (e.start_hour, e.end_hour))
MergeOrderAsGiven(lst) == lst
MergeOrder(lst) == SortStartEnd(lst)

\* if e.start_hour <= cur[1] + eps:  # overlap or touches
TouchesStrict(e, cur) == e.start_hour < cur[2]
Touches(e, cur) == e.start_hour <= cur[2] + Eps

\* cur[1] = max(cur[1], e.end_hour)
Extend(cur, e) == <<cur[1], Max(cur[2], e.end_hour)>>

\* cur_ignored = cur_ignored or e.ignored
OrIgnoredLast(cur_ignored, e) == e.ignored
OrIgnored(cur_ignored, e) == cur_ignored \/ e.ignored

\* if cur is not None: out.append(Event(day, cur[0], cur[1], room, cur_ignored))
FlushDropped(out, k, cur, cur_ignored) == out
Flush(out, k, cur, cur_ignored) ==
    IF cur # <<>> THEN Append(out, Event(k[1], cur[1], cur[2], k[2], cur_ignored))
    ELSE out

\* the sweep over one sorted group; cur = <<>> is cur = None
RECURSIVE MergeSweep(_, _, _, _, _, _)
MergeSweep(lst, k, i, cur, cur_ignored, out) ==
    IF i > Len(lst) THEN Flush(out, k, cur, cur_ignored)
    ELSE LET e == lst[i]
         IN  IF cur = <<>>
             THEN MergeSweep(lst, k, i + 1, <<e.start_hour, e.end_hour>>, e.ignored, out)
             ELSE IF Touches(e, cur)
             THEN MergeSweep(lst, k, i + 1, Extend(cur, e), OrIgnored(cur_ignored, e), out)
             ELSE MergeSweep(lst, k, i + 1, <<e.start_hour, e.end_hour>>, e.ignored,
                             Append(out, Event(k[1], cur[1], cur[2], k[2], cur_ignored)))

RECURSIVE MergeGroups(_, _, _, _)
MergeGroups(evs, keys, j, out) ==
    IF j > Len(keys) THEN out
    ELSE MergeGroups(evs, keys, j + 1,
            MergeSweep(MergeOrder(MergeGroupFrom(evs, keys[j], 1, <<>>)),
                       keys[j], 1, <<>>, FALSE, out))

_merge_same_room(evs) == MergeGroups(evs, MergeKeysFrom(evs, 1, <<>>), 1, <<>>)

-----------------------------------------------------------------------------
(* _group_identical_windows *)

\* round(x, 4): the nearest multiple of 1e-4 h, an exact tie going to the even one
Round4(x) ==
    LET q == x \div RoundGrid
        r == x % RoundGrid
    IN  IF 2 * r < RoundGrid THEN q * RoundGrid
        ELSE IF 2 * r > RoundGrid THEN (q + 1) * RoundGrid
        ELSE IF q % 2 = 0 THEN q * RoundGrid ELSE (q + 1) * RoundGrid

\* e.room_code or "?"
RoomLabel(room) == IF room = None \/ room = "" THEN "?" ELSE room

\* key = (e.day_index, round(e.start_hour, 4), round(e.end_hour, 4), e.ignored)
BucketKeyNoFlag(e) == <<e.day_index, Round4(e.start_hour), Round4(e.end_hour), FALSE>>
BucketKey(e) == <<e.day_index, Round4(e.start_hour), Round4(e.end_hour), e.ignored>>

\* buckets: the keys in order of first insertion
RECURSIVE BucketKeysFrom(_, _, _)
BucketKeysFrom(evs, i, keys) ==
    IF i > Len(evs) THEN keys
    ELSE BucketKeysFrom(evs, i + 1,
            IF BucketKey(evs[i]) \in Range(keys) THEN keys
            ELSE Append(keys, BucketKey(evs[i])))

\* buckets[k]: setdefault(key, []).append(e.room_code or "?")
RECURSIVE BucketRoomsFrom(_, _, _, _)
BucketRoomsFrom(evs, k, i, rooms) ==
    IF i > Len(evs) THEN rooms
    ELSE BucketRoomsFrom(evs, k, i + 1,
            IF BucketKey(evs[i]) = k THEN Append(rooms, RoomLabel(evs[i].room_code))
            ELSE rooms)

Block(day, s, e, rooms, ign) ==
    [day_index |-> day, start_hour |-> s, end_hour |-> e, rooms |-> rooms, ignored |-> ign]

\* blocks.sort(key=lambda b: (b["day_index"], b["start_hour"], b["end_hour"]))
DayStartEndKeyLeq(a, b) ==
    \/ a.day_index < b.day_index
    \/ a.day_index = b.day_index /\ StartEndKeyLeq(a, b)

RECURSIVE InsertDayStartEnd(_, _)
InsertDayStartEnd(sorted, x) ==
    IF sorted = <<>> THEN <<x>>
    ELSE LET last == sorted[Len(sorted)]
         IN  IF DayStartEndKeyLeq(last, x) THEN Append(sorted, x)
             ELSE Append(InsertDayStartEnd(SubSeq(sorted, 1, Len(sorted) - 1), x), last)

RECURSIVE GroupBlocksFrom(_, _, _, _)
GroupBlocksFrom(evs, keys, j, blocks) ==
    IF j > Len(keys) THEN blocks
    ELSE LET k == keys[j]
         IN  GroupBlocksFrom(evs, keys, j + 1,
                InsertDayStartEnd(blocks,
                    Block(k[1], k[2], k[3], BucketRoomsFrom(evs, k, 1, <<>>), k[4])))

_group_identical_windows(evs) ==
    GroupBlocksFrom(evs, BucketKeysFrom(evs, 1, <<>>), 1, <<>>)

-----------------------------------------------------------------------------
(* _assign_lanes *)

\* blocks_for_day = sorted(blocks_for_day, key=lambda b: (b["start_hour"], b["end_hour"]))
LaneOrderAsGiven(blocks_for_day) == blocks_for_day
LaneOrder(blocks_for_day) == SortStartEnd(blocks_for_day)

\* if b["start_hour"] >= last_end - 1e-9
LaneFreeByEnd(b, last_end) == b.end_hour >= last_end - LaneEps
LaneFree(b, last_end) == b.start_hour >= last_end - LaneEps

\* for li, last_end in enumerate(lanes_end): the first free lane, 0 when there is none
\* (lanes are numbered from 1 here; lane_index is this number minus one)
FirstFreeLane(b, lanes_end) ==
    IF \E li \in 1..Len(lanes_end) : LaneFree(b, lanes_end[li])
    THEN CHOOSE li \in 1..Len(lanes_end) :
            /\ LaneFree(b, lanes_end[li])
            /\ \A lj \in 1..(li - 1) : ~LaneFree(b, lanes_end[lj])
    ELSE 0

\* placed.append((b, placed_lane, len(lanes_end)))
PlacedFinalCount(b, placed_lane, lanes_end) ==
    [block |-> b, lane_index |-> placed_lane, lane_count |-> placed_lane + 1]
Placed(b, placed_lane, lanes_end) ==
    [block |-> b, lane_index |-> placed_lane, lane_count |-> Len(lanes_end)]

RECURSIVE LaneLoop(_, _, _, _)
LaneLoop(sorted, i, lanes_end, placed) ==
    IF i > Len(sorted) THEN placed
    ELSE LET b == sorted[i]
             li == FirstFreeLane(b, lanes_end)
             ends == IF li > 0 THEN [lanes_end EXCEPT ![li] = b.end_hour]
                     ELSE Append(lanes_end, b.end_hour)
             placed_lane == IF li > 0 THEN li - 1 ELSE Len(lanes_end)
         IN  LaneLoop(sorted, i + 1, ends, Append(placed, Placed(b, placed_lane, ends)))

_assign_lanes(blocks_for_day) == LaneLoop(LaneOrder(blocks_for_day), 1, <<>>, <<>>)

-----------------------------------------------------------------------------
(* workweek_bounds_utc.  A datetime is [day, sec]: the date's proleptic      *)
(* Gregorian ordinal (date.toordinal()) and the second of the day, which is  *)
(* how datetime and timedelta keep them (days and seconds, normalised).      *)

SecondsPerDay == 24 * 60 * 60

\* datetime + timedelta(days=d, seconds=s), normalised
AddDelta(t, d, s) ==
    LET total == t.sec + s
    IN  [day |-> t.day + d + (total \div SecondsPerDay), sec |-> total % SecondsPerDay]

\* date.weekday(): Mon=0 .. Sun=6
weekday(day) == (day + 6) % 7

\* isoformat().replace("+00:00", "Z"): the fields the string is written from
IsoZ(t) ==
    [date |-> t.day, hh |-> t.sec \div 3600, mm |-> (t.sec % 3600) \div 60,
     ss |-> t.sec % 60, zone |-> "Z"]

\* days_to_next_mon = 7 - wd
DaysToNextMon(wd) == 7 - wd

\* the branch on wd >= 5, and .date() of the shifted anchor
MondayOfAlwaysBack(anchor) == AddDelta(anchor, 0 - weekday(anchor.day), 0).day
MondayOf(anchor) ==
    LET wd == weekday(anchor.day)
    IN  IF wd >= 5 THEN AddDelta(anchor, DaysToNextMon(wd), 0).day
        ELSE AddDelta(anchor, 0 - wd, 0).day

\* config.DEFAULT_WINDOW_DAYS, which workweek_bounds_utc does not read
DEFAULT_WINDOW_DAYS == 7

\* end = start + dt.timedelta(days=5) - dt.timedelta(seconds=1)
WeekEndWindowDays(start) == AddDelta(AddDelta(start, DEFAULT_WINDOW_DAYS, 0), 0, 0 - 1)
WeekEnd(start) == AddDelta(AddDelta(start, 5, 0), 0, 0 - 1)

workweek_bounds_utc(anchor) ==
    LET monday == MondayOf(anchor)
        start == [day |-> monday, sec |-> 0]
        end == WeekEnd(start)
    IN  [start_iso |-> IsoZ(start), end_iso |-> IsoZ(end), monday |-> monday,
         start |-> start, end |-> end]

-----------------------------------------------------------------------------
(* scrape_week (bot/scraper.py) and the booking client (rmit_booker.py) *)

\* MELB_TZ: Australian Eastern Standard Time, UTC+10, the offset in August
MelbourneOffset == 10 * 3600

\* fmt_local: astimezone(MELB_TZ).strftime("%a %d %b %Y %H:%M"); the fields
\* the string is written from (the seconds are not written)
fmt_local(t) ==
    LET l == AddDelta(t, 0, MelbourneOffset)
    IN  [dow |-> weekday(l.day), date |-> l.day,
         hh |-> l.sec \div 3600, mm |-> (l.sec % 3600) \div 60]

\* datetime.strptime(s, "%a %d %b %Y %H:%M"): the date and time come from the
\* day, month, year, hour and minute fields
strptime(s) == [day |-> s.date, sec |-> s.hh * 3600 + s.mm * 60]

\* extract_room_name: the booking's resource name, "?" when it has none
extract_room_name(booking) ==
    IF booking.ResourceName = None \/ booking.ResourceName = "" THEN "?"
    ELSE booking.ResourceName

\* parse_dt_any for one key: <<the datetime>>, or <<>> for the KeyError raised
\* when the booking has no date that parses (iso_dates is false)
parse_dt_any(booking, key) == IF booking.iso_dates THEN <<booking[key]>> ELSE <<>>

\* summarize_booking: start and end are absolute UTC datetimes of the booking
summarize_booking_raises(booking) ==
    parse_dt_any(booking, "StartDateTime") = <<>> \/ parse_dt_any(booking, "EndDateTime") = <<>>
summarize_booking(booking) ==
    [room |-> extract_room_name(booking),
     start_local |-> fmt_local(parse_dt_any(booking, "StartDateTime")[1]),
     end_local |-> fmt_local(parse_dt_any(booking, "EndDateTime")[1]),
     owner |-> booking.Owner]

\* fetch_bookings: a response is [status, items]; <<>> stands for the raised
\* RuntimeError of a non-200 status
fetch_bookings(response) ==
    IF response.status # 200 THEN <<>> ELSE <<response.items>>

\* list_friend_bookings for one room.  storage_ok: load_bearer_from_storage
\* found a token (it raises otherwise, before the request is sent).
\* friend_match is the outcome of is_friend_booking on the booking.
RECURSIVE SummariesFrom(_, _, _)
SummariesFrom(bookings, i, acc) ==
    IF i > Len(bookings) THEN acc
    ELSE SummariesFrom(bookings, i + 1,
            IF bookings[i].friend_match
            THEN Append(acc, summarize_booking(bookings[i])) ELSE acc)

list_friend_bookings(storage_ok, response) ==
    IF ~storage_ok THEN [raised |-> TRUE, requested |-> FALSE, summaries |-> <<>>]
    ELSE LET got == fetch_bookings(response)
         IN  IF got = <<>>
             THEN [raised |-> TRUE, requested |-> TRUE, summaries |-> <<>>]
             ELSE IF \E i \in 1..Len(got[1]) :
                        got[1][i].friend_match /\ summarize_booking_raises(got[1][i])
             THEN [raised |-> TRUE, requested |-> TRUE, summaries |-> <<>>]
             ELSE [raised |-> FALSE, requested |-> TRUE,
                   summaries |-> SummariesFrom(got[1], 1, <<>>)]

\* s.setdefault("room", ...): summarize_booking has set "room" already;
\* s.setdefault("room_code", r.get("code")): the summary has no room_code yet
RECURSIVE AttachRoom(_, _, _, _)
AttachRoom(summaries, r, i, acc) ==
    IF i > Len(summaries) THEN acc
    ELSE AttachRoom(summaries, r, i + 1,
            Append(acc, [room |-> summaries[i].room,
                         room_code |-> r.code,
                         start_local |-> summaries[i].start_local,
                         end_local |-> summaries[i].end_local,
                         owner |-> summaries[i].owner]))

\* for r in rooms: the loop stops at the first room whose fetch raises.
\* log: the rooms list_friend_bookings was called for, in order.
RECURSIVE FetchRooms(_, _, _, _, _, _)
FetchRooms(rooms, i, storage_ok, upstream, acc, log) ==
    IF i > Len(rooms) THEN [raised |-> FALSE, summaries |-> acc, log |-> log]
    ELSE LET r == rooms[i]
             got == list_friend_bookings(storage_ok, upstream[r.id])
         IN  IF got.raised
             THEN [raised |-> TRUE, summaries |-> acc, log |-> Append(log, r.id)]
             ELSE FetchRooms(rooms, i + 1, storage_ok, upstream,
                             acc \o AttachRoom(got.summaries, r, 1, <<>>),
                             Append(log, r.id))

\* start_local.hour + start_local.minute / 60, in units
HourOf(t) == (t.sec \div 3600) * UnitsPerHour + ((t.sec % 3600) \div 60) * UnitsPerMinute

\* label: "%H:%M" of the start and of the end
Label(s, e) == <<s.sec \div 3600, (s.sec % 3600) \div 60, e.sec \div 3600, (e.sec % 3600) \div 60>>

\* ignored = (s.get("room_code") in ignore)
IsIgnoredAlways(room_code, ignore) == TRUE
IsIgnored(room_code, ignore) == room_code \in ignore

\* if day_idx >= 5: continue
SkipsDaySundayOnly(day_idx) == day_idx >= 6
SkipsDay(day_idx) == day_idx >= 5

\* the second loop of scrape_week: events and warnings from all_summaries
RECURSIVE BuildEvents(_, _, _, _, _)
BuildEvents(all_summaries, ignore, i, evs, warns) ==
    IF i > Len(all_summaries) THEN [events |-> evs, warns |-> warns]
    ELSE LET s == all_summaries[i]
             start_local == strptime(s.start_local)
             end_local == strptime(s.end_local)
             day_idx == weekday(start_local.day)
             ignored == IsIgnored(s.room_code, ignore)
         IN  IF SkipsDay(day_idx) THEN BuildEvents(all_summaries, ignore, i + 1, evs, warns)
             ELSE BuildEvents(all_summaries, ignore, i + 1,
                    Append(evs, [day_index |-> day_idx,
                                 start_hour |-> HourOf(start_local),
                                 end_hour |-> HourOf(end_local),
                                 label |-> Label(start_local, end_local),
                                 room_code |-> s.room_code,
                                 ignored |-> ignored]),
                    IF ignored
                    THEN Append(warns, [owner |-> s.owner, room_code |-> s.room_code,
                                        room |-> s.room,
                                        start_local |-> s.start_local,
                                        end_local |-> s.end_local])
                    ELSE warns)

-----------------------------------------------------------------------------
\* bot/datastore.py: save_json(path, data) leaves data as the whole content of
\* the file; load_json(path, default) is the content, default for no file
NoFile == [exists |-> FALSE]
File(data) == [exists |-> TRUE, data |-> data]
save_json_merging(file, data) ==
    IF file.exists
    THEN File([data EXCEPT !.summaries = file.data.summaries \o data.summaries])
    ELSE File(data)
save_json(file, data) == File(data)
load_json(file, default) == IF file.exists THEN file.data ELSE default

\* "week": str(monday)
StrDate(day) == <<"date", day>>

\* date.fromordinal: the year, month and day of a proleptic Gregorian ordinal
\* (1 is 0001-01-01), counted in 400-year eras of 146097 days from 1 March
DateOf(ordinal) ==
    LET z == ordinal + 305
        era == z \div 146097
        doe == z % 146097
        yoe == (doe - doe \div 1460 + doe \div 36524 - doe \div 146096) \div 365
        doy == doe - (365 * yoe + yoe \div 4 - yoe \div 100)
        mp == (5 * doy + 2) \div 153
        m == IF mp < 10 THEN mp + 3 ELSE mp - 9
    IN  [year |-> yoe + era * 400 + (IF m <= 2 THEN 1 ELSE 0),
         month |-> m,
         day |-> doy - (153 * mp + 2) \div 5 + 1]

\* a text is a sequence of characters; the decimal digits of n >= 0
DigitChar == <<"0", "1", "2", "3", "4", "5", "6", "7", "8", "9">>
RECURSIVE Digits(_)
Digits(n) ==
    IF n < 10 THEN <<DigitChar[n + 1]>>
    ELSE Digits(n \div 10) \o <<DigitChar[(n % 10) + 1]>>

\* strftime("%-d") ("%#d" on Windows): the day of the month, not padded;
\* strftime("%d") pads it to two digits
strftime_d_padded(date) ==
    IF date.day < 10 THEN <<"0">> \o Digits(date.day) ELSE Digits(date.day)
strftime_d(date) == Digits(date.day)

\* strftime("%b"), strftime("%b %Y")
MonthAbbr == <<"Jan", "Feb", "Mar", "Apr", "May", "Jun",
               "Jul", "Aug", "Sep", "Oct", "Nov", "Dec">>
strftime_b(date) == <<MonthAbbr[date.month]>>
strftime_bY(date) == strftime_b(date) \o <<" ">> \o Digits(date.year)

\* _format_week_range(monday_date); "--" stands for the en dash
_format_week_range(monday_date) ==
    LET monday == DateOf(monday_date)
        fri == DateOf(monday_date + 4)
        d_start == strftime_d(monday)
        d_end == strftime_d(fri)
    IN  IF monday.year = fri.year
        THEN IF monday.month = fri.month
             THEN d_start \o <<"--">> \o d_end \o <<" ">> \o strftime_bY(fri)
             ELSE d_start \o <<" ">> \o strftime_b(monday) \o <<" ", "--", " ">>
                  \o d_end \o <<" ">> \o strftime_bY(fri)
        ELSE d_start \o <<" ">> \o strftime_bY(monday) \o <<" ", "--", " ">>
             \o d_end \o <<" ">> \o strftime_bY(fri)

\* title = f"Week of {pretty_range}"
Title(monday) == <<"Week of", " ">> \o _format_week_range(monday)

\* the data scrape_week saves to bookings.json
WeekSnapshot(all_summaries, monday) ==
    [summaries |-> all_summaries, week |-> StrDate(monday)]

\* save_json comes after the rooms loop and the events loop: a run that
\* raises in either has not written bookings.json
SnapshotOnFailureSavedSoFar(bookings_file, summaries, monday) ==
    save_json(bookings_file, WeekSnapshot(summaries, monday))
SnapshotOnFailure(bookings_file, summaries, monday) == bookings_file

\* if not rooms: raise RuntimeError(...)
EmptyRosterRaisesNever(rooms) == FALSE
EmptyRosterRaises(rooms) == rooms = <<>>

\* the rooms loop: the result of FetchRooms, or of going on past a failed room
RECURSIVE FetchRoomsSkipFailed(_, _, _, _, _, _)
FetchRoomsSkipFailed(rooms, i, storage_ok, upstream, acc, log) ==
    IF i > Len(rooms) THEN [raised |-> FALSE, summaries |-> acc, log |-> log]
    ELSE LET r == rooms[i]
             got == list_friend_bookings(storage_ok, upstream[r.id])
         IN  FetchRoomsSkipFailed(rooms, i + 1, storage_ok, upstream,
                acc \o AttachRoom(got.summaries, r, 1, <<>>), Append(log, r.id))
RoomsLoopSkipFailed(rooms, storage_ok, upstream) ==
    FetchRoomsSkipFailed(rooms, 1, storage_ok, upstream, <<>>, <<>>)
RoomsLoop(rooms, storage_ok, upstream) ==
    FetchRooms(rooms, 1, storage_ok, upstream, <<>>, <<>>)

\* scrape_week.  upstream: room id -> the response the API gives for the
\* window.  The outcome: raised, the rooms asked for (log), the returned tuple
\* (value, <<>> when it raised) and the content of bookings.json afterwards.
scrape_week(rooms_file, ignore_file, utcnow, storage_ok, upstream, bookings_file) ==
    LET rooms == load_json(rooms_file, <<>>)
        ignore == load_json(ignore_file, {})
    IN  IF EmptyRosterRaises(rooms)
        THEN [raised |-> TRUE, error |-> "rooms.json is empty", log |-> <<>>,
              value |-> <<>>, snapshot |-> bookings_file]
        ELSE LET monday == workweek_bounds_utc(utcnow).monday
                 f == RoomsLoop(rooms, storage_ok, upstream)
                 b == BuildEvents(f.summaries, ignore, 1, <<>>, <<>>)
             IN  IF f.raised
                 THEN [raised |-> TRUE, error |-> "fetch failed", log |-> f.log,
                       value |-> <<>>,
                       snapshot |-> SnapshotOnFailure(bookings_file, f.summaries, monday)]
                 ELSE [raised |-> FALSE, error |-> "", log |-> f.log,
                       value |-> [summaries |-> f.summaries, events |-> b.events,
                                  warnings |-> b.warns, title |-> Title(monday)],
                       snapshot |-> save_json(bookings_file,
                                              WeekSnapshot(f.summaries, monday))]

-----------------------------------------------------------------------------
(* The session token: bot/session_check.py, bot/session_refresh.py *)

\* the token in storage_state.json is one of
\*   [kind |-> "absent"]       no file, no origin, no key or an empty access_token
\*   [kind |-> "malformed"]    a token with no second dot-separated part
\*   [kind |-> "undecodable"]  a second part that is not base64 of a JSON object
\*   [kind |-> "noexp"]        a JWT whose payload has no "exp"
\*   [kind |-> "jwt", exp |-> e]   a JWT that expires at e seconds
Absent == [kind |-> "absent"]
Jwt(e) == [kind |-> "jwt", exp |-> e]

\* load_bearer_from_storage: <<>> stands for a raised exception
load_bearer_from_storage(st) == IF st.kind = "absent" THEN <<>> ELSE <<st>>

\* exp = int(payload.get("exp", 0)) after the split and the decoding;
\* <<>> stands for a raised exception
DecodeExp(token) ==
    CASE token.kind = "jwt" -> <<token.exp>>
      [] token.kind = "noexp" -> <<0>>
      [] OTHER -> <<>>

\* int(time.time()): now is in milliseconds
IntTime(t) == t \div 1000

\* the safety margin, in seconds
FreshMargin == 300

\* return exp > int(time.time()) + 300
NotExpiringAtMargin(exp, t) == exp >= IntTime(t) + FreshMargin
NotExpiring(exp, t) == exp > IntTime(t) + FreshMargin

\* the value returned when the token is there and cannot be parsed
UnparsedIsStale == FALSE
UnparsedIsFresh == TRUE

token_is_fresh(st, t) ==
    LET token == load_bearer_from_storage(st)
    IN  IF token = <<>> THEN FALSE
        ELSE LET exp == DecodeExp(token[1])
             IN  IF exp = <<>> THEN UnparsedIsFresh
                 ELSE NotExpiring(exp[1], t)

\* get_current_token: <<>> stands for None
get_current_token(st) == IF st.kind = "absent" THEN <<>> ELSE <<st>>

\* minutes_remaining_from_token: max(0, int((exp - time.time()) / 60)),
\* 9999 when the token cannot be parsed
minutes_remaining_from_token(token, t) ==
    LET exp == DecodeExp(token)
    IN  IF exp = <<>> THEN 9999
        ELSE Max(0, (exp[1] * 1000 - t) \div (60 * 1000))

\* refresh_with_playwright returns True once the storage state is saved and
\* raises otherwise (no playwright, no browser, navigation timeout).  The
\* saved token is the one the site's silent sign-in left in localStorage.
RefreshOutcomes == {"true", "raise"}

-----------------------------------------------------------------------------
(* Friend matching: load_friends and is_friend_booking (rmit_booker.py).   *)
(* A text is a sequence of characters.                                      *)

\* str.lower(), character by character
LowerOf == [S |-> "s", O |-> "o", B |-> "b", E |-> "e", A |-> "a", N |-> "n"]
lower_char(c) == IF c \in DOMAIN LowerOf THEN LowerOf[c] ELSE c
lower(text) == [i \in 1..Len(text) |-> lower_char(text[i])]

\* needle in hay, for two str
In(needle, hay) ==
    \E i \in 0..(Len(hay) - Len(needle)) : SubSeq(hay, i + 1, i + Len(needle)) = needle

\* sep.join(texts)
RECURSIVE join(_, _)
join(sep, texts) ==
    IF texts = <<>> THEN <<>>
    ELSE IF Len(texts) = 1 THEN texts[1]
    ELSE texts[1] \o sep \o join(sep, Tail(texts))

\* ids = set(x.lower() for x in data.get("ids", [])); the fields default to
\* the four names of match_fields
DefaultMatchFields == <<"Owner", "BookerEmailAddress", "BookerName", "Reference">>
load_friends(file) ==
    [ids |-> {lower(x) : x \in file.data.ids}, match_fields |-> DefaultMatchFields]

\* a booking is a function from the keys it has to texts, in the order the
\* API sent them: Owner, BookerEmailAddress, Name
NoBooking == <<>>
KeyOrder == <<"Owner", "BookerEmailAddress", "Name">>
KeyText ==
    [Owner |-> <<"O", "w", "n", "e", "r">>,
     BookerEmailAddress |-> <<"B", "o", "o", "k", "e", "r", "E", "m", "a", "i", "l",
                              "A", "d", "d", "r", "e", "s", "s">>,
     Name |-> <<"N", "a", "m", "e">>]

\* str(booking.get(f, ""))
get_str(b, f) == IF f \in DOMAIN b THEN b[f] ELSE <<>>

\* json.dumps escapes what is not ASCII: the one such character here is "é"
escape_char(c) == IF c = "é" THEN <<"\\", "u", "0", "0", "e", "9">> ELSE <<c>>
RECURSIVE escape(_)
escape(text) == IF text = <<>> THEN <<>> ELSE escape_char(Head(text)) \o escape(Tail(text))

\* json.dumps(booking): {"key": "value", ...} in the order of the keys
RECURSIVE dumps_items(_, _)
dumps_items(b, keys) ==
    IF keys = <<>> THEN <<>>
    ELSE LET k == Head(keys)
             item == <<"\"">> \o KeyText[k] \o <<"\"", ":", " ", "\"">>
                     \o escape(b[k]) \o <<"\"">>
         IN  IF Len(keys) = 1 THEN <<item>> ELSE <<item>> \o dumps_items(b, Tail(keys))
json_dumps(b) ==
    <<"{">> \o join(<<",", " ">>, dumps_items(b, SelectSeq(KeyOrder, LAMBDA k : k \in DOMAIN b)))
    \o <<"}">>

\* the haystack of the configured fields
hay(b, match_fields) ==
    lower(join(<<" ">>, [i \in 1..Len(match_fields) |-> get_str(b, match_fields[i])]))

\* is_friend_booking
is_friend_booking_fields_only(b, friend_ids, match_fields) ==
    \E fid \in friend_ids : In(fid, hay(b, match_fields))
is_friend_booking(b, friend_ids, match_fields) ==
    IF \E fid \in friend_ids : In(fid, hay(b, match_fields)) THEN TRUE
    ELSE LET hay_all == lower(json_dumps(b))
         IN  \E fid \in friend_ids : In(fid, hay_all)

-----------------------------------------------------------------------------
(* State *)

VARIABLES
    events,          \* the events handed to render_week_calendar
    tmp,             \* render_week_calendar: the clamped Event objects
    merged,          \* render_week_calendar: _merge_same_room(tmp)
    blocks,          \* render_week_calendar: _group_identical_windows(merged)
    placed,          \* per day 0..4, _assign_lanes(day_blocks)
    max_lanes,       \* per day 0..4, max(l for _, _, l in placed); 0: nothing drawn
    rendered,        \* render_week_calendar has returned
    blocks_for_day,  \* the argument of a direct call of _assign_lanes
    lanes_result,    \* its result
    lanes_done,      \* the call has returned
    anchor,          \* the argument of workweek_bounds_utc, <<>> before the clock is read
    window,          \* its result, <<>> before the call
    rooms_json,      \* the file jsons/rooms.json: the roster
    ignore_json,     \* the file jsons/ignore_rooms.json: the set under "rooms"
    bookings_json,   \* the file data/bookings.json: the last-scrape snapshot
    writes,          \* how many runs of the bot's handlers have written it, up to MaxWrites
    storage,         \* the token in .secrets/storage_state.json
    now,             \* time.time(), in milliseconds
    scrape_in,       \* what the latest call of scrape_week read, <<>> before one
    scrape_out,      \* the outcome of the latest call of scrape_week, <<>> before one
    fresh_in,        \* the token and the time the latest handler run gave token_is_fresh, <<>> for none
    fresh_out,       \* the results of token_is_fresh in the latest handler run
    handler,         \* the handler that ran last ("" before one), and whether it called scrape_week
    warned,          \* refresher_loop: its local flag
    ticks,           \* refresher_loop: iterations done
    refreshed,       \* refresher_loop: refresh_with_playwright was called in the latest iteration
    fail_run,        \* consecutive failed refreshes up to the latest iteration
    run_warnings,    \* "periodic refresh failed" messages printed during that run of failures
    run_errors,      \* "refresher error" messages printed during that run of failures
    refreshers,      \* the refresher_loop tasks on_ready has created and that have not ended
    in_thread,       \* how many of them await asyncio.to_thread(refresh_with_playwright)
    calls,           \* the blocking calls of the handler run that ended last, by thread
    friends_json,    \* the file jsons/friends.json: the raw ids under "ids"
    booking,         \* a booking record of the API: field -> text
    friend_out,      \* the latest call of is_friend_booking and its result, <<>> before one
    label_in,        \* <<monday>>, the argument of _format_week_range; <<>> before the week is known
    label_out        \* its result, <<>> before the call

vars == <<events, tmp, merged, blocks, placed, max_lanes, rendered,
          blocks_for_day, lanes_result, lanes_done, anchor, window,
          rooms_json, ignore_json, bookings_json, writes, storage, now, scrape_in, scrape_out,
          fresh_in, fresh_out, handler, warned, ticks, refreshed, fail_run, run_warnings,
          run_errors, refreshers, in_thread, calls, friends_json, booking, friend_out,
          label_in, label_out>>

renderVars == <<events, tmp, merged, blocks, placed, max_lanes, rendered>>
laneVars == <<blocks_for_day, lanes_result, lanes_done>>
weekVars == <<anchor, window>>
configVars == <<rooms_json, ignore_json>>
sessionVars == <<storage, now>>
runVars == <<bookings_json, writes, scrape_in, scrape_out, fresh_in, fresh_out, handler>>
refresherVars == <<warned, ticks, refreshed, fail_run, run_warnings, run_errors>>
taskVars == <<refreshers, in_thread, calls>>
friendVars == <<friends_json, booking, friend_out>>
labelVars == <<label_in, label_out>>
pureVars == <<friendVars, labelVars>>
botVars == <<configVars, sessionVars, runVars, refresherVars, taskVars, pureVars>>

Days == 0..4

\* the bot starts at StartClock (milliseconds) with the token of a login
\* capture that expires an hour later (seconds)
StartClock == 1000 * 1000
FirstExp == (StartClock \div 1000) + 3600

Init ==
    /\ events = <<>>
    /\ tmp = <<>>
    /\ merged = <<>>
    /\ blocks = <<>>
    /\ placed = [d \in Days |-> <<>>]
    /\ max_lanes = [d \in Days |-> 0]
    /\ rendered = FALSE
    /\ blocks_for_day = <<>>
    /\ lanes_result = <<>>
    /\ lanes_done = FALSE
    /\ anchor = <<>>
    /\ window = <<>>
    /\ rooms_json = NoFile
    /\ ignore_json = NoFile
    /\ bookings_json = NoFile
    /\ writes = 0
    /\ storage = Jwt(FirstExp)
    /\ now = StartClock
    /\ scrape_in = <<>>
    /\ scrape_out = <<>>
    /\ fresh_in = <<>>
    /\ fresh_out = <<>>
    /\ handler = [name |-> "", scraped |-> FALSE]
    /\ warned = FALSE
    /\ ticks = 0
    /\ refreshed = FALSE
    /\ fail_run = 0
    /\ run_warnings = 0
    /\ run_errors = 0
    /\ refreshers = 0
    /\ in_thread = 0
    /\ calls = [loop |-> {}, thread |-> {}]
    /\ friends_json = NoFile
    /\ booking = NoBooking
    /\ friend_out = <<>>
    /\ label_in = <<>>
    /\ label_out = <<>>

-----------------------------------------------------------------------------
(* Bounds and input sets *)

MaxEvents == 3
MaxBlocks == 3
AnchorWeeks == 3

At(h, m) == h * UnitsPerHour + m * UnitsPerMinute

\* windows that touch exactly (1, 2), touch within eps (1, 3), overlap (2, 3),
\* and miss each other by just more than eps (2, 4)
MergeWindows ==
    { <<At(9, 0), At(10, 0)>>,
      <<At(10, 0), At(11, 0)>>,
      <<At(10, 0) + Eps - 1, At(10, 30)>>,
      <<At(11, 0) + Eps + 1, At(12, 0)>> }

MergeKeys == { <<0, "A">>, <<0, "B">>, <<1, "A">> }

\* every window in every (day, room), and room A of day 0 also flagged
MergeInputs ==
    { Event(k[1], w[1], w[2], k[2], FALSE) : k \in MergeKeys, w \in MergeWindows }
        \cup { Event(0, w[1], w[2], "A", TRUE) : w \in MergeWindows }

\* windows on and off the 1e-4 h grid, two of them shorter than the grid step
GroupWindows ==
    { <<At(9, 0), At(10, 0)>>,
      <<At(9, 20), At(10, 0)>>,
      <<At(11, 0) + 10, At(11, 0) + 20>>,
      <<At(11, 0) + 30, At(11, 0) + 40>> }

GroupRooms == { None, "", "A" }

\* every window in every room, and room A also flagged
GroupInputs ==
    { Event(0, w[1], w[2], r, FALSE) : w \in GroupWindows, r \in GroupRooms }
        \cup { Event(0, w[1], w[2], "A", TRUE) : w \in GroupWindows }

\* windows inside the visible hours, inverted, of no width, outside them on
\* either side, ending or starting at their bounds, partly outside, covering
\* them, and shorter than the grid step
ClampWindows ==
    { <<At(9, 0), At(10, 0)>>,
      <<At(10, 0), At(9, 0)>>,
      <<At(9, 0), At(9, 0)>>,
      <<At(6, 0), At(7, 0)>>,
      <<At(21, 0), At(22, 0)>>,
      <<At(6, 0), At(8, 0)>>,
      <<At(20, 0), At(21, 0)>>,
      <<At(7, 0), At(9, 0)>>,
      <<At(19, 30), At(21, 0)>>,
      <<At(7, 0), At(21, 0)>>,
      <<At(11, 0) + 10, At(11, 0) + 20>> }

ClampInputs == { Event(0, w[1], w[2], "A", FALSE) : w \in ClampWindows }

\* blocks of one day as _group_identical_windows writes them: times on the grid
LaneTimes == { At(9, 0), At(10, 0), At(11, 0), At(12, 0) }

LaneWindows == { w \in LaneTimes \X LaneTimes : w[1] < w[2] }

LaneInputs == { Block(0, w[1], w[2], <<"A">>, ign) : w \in LaneWindows, ign \in BOOLEAN }

\* Monday 2025-08-11 is ordinal 739474 = 7 * 105639 + 1
FirstAnchorDay == 7 * 105639 + 1
AnchorDays == FirstAnchorDay .. (FirstAnchorDay + 7 * AnchorWeeks - 1)
AnchorSeconds == { 0, 1, 12 * 3600, SecondsPerDay - 1 }

(* Inputs of scrape_week *)

MaxRooms == 2

R1 == [id |-> "r1", code |-> "080.10.04", name |-> "Swanston Group Study Room"]
R2 == [id |-> "r2", code |-> "010.05.68", name |-> ""]
ScrapeRooms == {R1, R2}
IgnoreCodes == {R1.code, R2.code}

\* a booking of the API: absolute UTC start and end, its owner, the name of its
\* resource and the outcome of is_friend_booking on it
Booking(monday, dayoff, sec, dur, owner, friend) ==
    [StartDateTime |-> AddDelta([day |-> monday, sec |-> 0], dayoff, sec),
     EndDateTime |-> AddDelta([day |-> monday, sec |-> 0], dayoff, sec + dur),
     Owner |-> owner, ResourceName |-> None, friend_match |-> friend,
     iso_dates |-> TRUE]

\* Mon 23:00 UTC is Tue 09:00 in Melbourne; Thu 00:30 UTC is Thu 10:30;
\* Fri 20:00 UTC, inside the queried window, is Sat 06:00
TueBooking(monday) == Booking(monday, 0, 23 * 3600, 3600, "s1234567", TRUE)
ThuBooking(monday) == Booking(monday, 3, 1800, 5400, "s7654321", TRUE)
SatBooking(monday) == Booking(monday, 4, 20 * 3600, 3600, "s1234567", TRUE)
StrangerBooking(monday) == Booking(monday, 2, 0, 3600, "s0000000", FALSE)

\* a friend's booking with no StartDateTime that parses
UndatedBooking(monday) == [TueBooking(monday) EXCEPT !.iso_dates = FALSE]

\* the responses of the BookingRequests endpoint for one room
Responses(monday) ==
    { [status |-> 500, items |-> <<>>],
      [status |-> 200, items |-> <<>>],
      [status |-> 200, items |-> <<StrangerBooking(monday), TueBooking(monday)>>],
      [status |-> 200, items |-> <<SatBooking(monday), ThuBooking(monday)>>] }

\* responses with a booking whose dates do not parse
DateResponses(monday) ==
    { [status |-> 500, items |-> <<>>],
      [status |-> 200, items |-> <<TueBooking(monday)>>],
      [status |-> 200, items |-> <<StrangerBooking(monday), UndatedBooking(monday)>>] }

\* utcnow() at the call: a Wednesday noon, and the Saturday that follows
ScrapeAnchors ==
    { [day |-> FirstAnchorDay + 2, sec |-> 12 * 3600],
      [day |-> FirstAnchorDay + 5, sec |-> 12 * 3600] }

RoomIds(file) == {r.id : r \in Range(load_json(file, <<>>))}
Upstreams(file, utcnow) ==
    [RoomIds(file) -> Responses(workweek_bounds_utc(utcnow).monday)]

(* Inputs of the handlers *)

MaxTicks == 3
MaxReady == 2
MaxWrites == 2

\* await asyncio.sleep(1800)
SleepSeconds == 1800

\* the roster and the responses the handlers meet
BotRooms == {R1}
DateUpstreams(file, utcnow) ==
    [RoomIds(file) -> DateResponses(workweek_bounds_utc(utcnow).monday)]
BotResponses(monday) ==
    { [status |-> 500, items |-> <<>>],
      [status |-> 200, items |-> <<SatBooking(monday), ThuBooking(monday)>>] }
BotUpstreams(file, utcnow) ==
    [RoomIds(file) -> BotResponses(workweek_bounds_utc(utcnow).monday)]

\* the token the silent sign-in leaves: the one there was, or a new one that
\* expires in an hour
SavedTokens(st, t) == {st, Jwt(IntTime(t) + 3600)}

(* Inputs of is_friend_booking *)

\* the ids friends.json may hold, as they were typed
FriendsRaw == {<<"S", "1">>, <<"s", "2">>}

\* the texts of a booking's fields
FieldTexts == {<<>>, <<"S", "1", "@">>, <<"s", "2">>, <<"x", "é">>}
Bookings == [{"Owner", "BookerEmailAddress", "Name"} -> FieldTexts]

(* Inputs of _format_week_range *)

\* the weeks whose Wednesday noon the clock is read at
LabelWeeks == 60
LabelAnchors == {[day |-> FirstAnchorDay + 7 * k + 2, sec |-> 12 * 3600] : k \in 0..(LabelWeeks - 1)}

(* Inputs of token_is_fresh *)

MaxElapsed == 3

\* the clock moves by half a second
ElapseStep == 1000 \div 2

\* tokens that expire before the start, and 299 to 302 seconds after it
FreshExps ==
    {IntTime(StartClock) - 10} \cup {IntTime(StartClock) + d : d \in 299..302}
FreshStorages ==
    {Absent, [kind |-> "malformed"], [kind |-> "undecodable"], [kind |-> "noexp"]}
        \cup {Jwt(e) : e \in FreshExps}

-----------------------------------------------------------------------------
(* Actions *)

\* a caller builds the list of event dicts
AddEvent(e) ==
    /\ ~rendered
    /\ Len(events) < MaxEvents
    /\ events' = Append(events, e)
    /\ UNCHANGED <<tmp, merged, blocks, placed, max_lanes, rendered>>
    /\ UNCHANGED <<laneVars, weekVars, botVars>>

\* the loop that clamps the dicts into Event objects
RECURSIVE ClampFrom(_, _, _)
ClampFrom(evs, i, acc) ==
    IF i > Len(evs) THEN acc
    ELSE LET c == _clamp_interval(evs[i].start_hour, evs[i].end_hour, min_hour, max_hour)
         IN  ClampFrom(evs, i + 1,
                IF c = <<>> THEN acc
                ELSE Append(acc, Event(evs[i].day_index, c[1], c[2],
                                       evs[i].room_code, evs[i].ignored)))

\* by_day[d]: the blocks of day d, in the order of blocks
ByDay(bs, d) == SelectSeq(bs, LAMBDA b : b.day_index = d)

\* max(l for _, _, l in placed)
MaxLaneCount(pl) ==
    IF pl = <<>> THEN 0
    ELSE CHOOSE m \in {pl[i].lane_count : i \in 1..Len(pl)} :
            \A i \in 1..Len(pl) : pl[i].lane_count <= m

render_week_calendar ==
    /\ ~rendered
    /\ tmp' = ClampFrom(events, 1, <<>>)
    /\ merged' = _merge_same_room(tmp')
    /\ blocks' = _group_identical_windows(merged')
    /\ placed' = [d \in Days |-> _assign_lanes(ByDay(blocks', d))]
    /\ max_lanes' = [d \in Days |-> MaxLaneCount(placed'[d])]
    /\ rendered' = TRUE
    /\ UNCHANGED events
    /\ UNCHANGED <<laneVars, weekVars, botVars>>

\* a direct call of _assign_lanes on any list of blocks of one day
AddBlock(b) ==
    /\ ~lanes_done
    /\ Len(blocks_for_day) < MaxBlocks
    /\ blocks_for_day' = Append(blocks_for_day, b)
    /\ UNCHANGED <<lanes_result, lanes_done>>
    /\ UNCHANGED <<renderVars, weekVars, botVars>>

AssignLanes ==
    /\ ~lanes_done
    /\ lanes_result' = _assign_lanes(blocks_for_day)
    /\ lanes_done' = TRUE
    /\ UNCHANGED blocks_for_day
    /\ UNCHANGED <<renderVars, weekVars, botVars>>

\* anchor = dt.datetime.utcnow(), or the caller's anchor
ReadAnchor(day, sec) ==
    /\ anchor = <<>>
    /\ anchor' = [day |-> day, sec |-> sec]
    /\ UNCHANGED window
    /\ UNCHANGED <<renderVars, laneVars, botVars>>

WorkweekBounds ==
    /\ anchor # <<>>
    /\ window = <<>>
    /\ window' = workweek_bounds_utc(anchor)
    /\ UNCHANGED anchor
    /\ UNCHANGED <<renderVars, laneVars, botVars>>

\* rooms.json is edited by hand: one more room at the end of the roster
EditRoster(r) ==
    /\ Len(load_json(rooms_json, <<>>)) < MaxRooms
    /\ r.id \notin RoomIds(rooms_json)
    /\ rooms_json' = save_json(rooms_json, Append(load_json(rooms_json, <<>>), r))
    /\ UNCHANGED ignore_json
    /\ UNCHANGED <<renderVars, laneVars, weekVars, sessionVars, runVars, refresherVars, taskVars, pureVars>>

\* /ignorerooms add
ign_add(code) ==
    /\ code \notin load_json(ignore_json, {})
    /\ ignore_json' = save_json(ignore_json, load_json(ignore_json, {}) \cup {code})
    /\ UNCHANGED rooms_json
    /\ UNCHANGED <<renderVars, laneVars, weekVars, sessionVars, runVars, refresherVars, taskVars, pureVars>>

\* /ignorerooms remove
ign_remove(code) ==
    /\ code \in load_json(ignore_json, {})
    /\ ignore_json' = save_json(ignore_json, load_json(ignore_json, {}) \ {code})
    /\ UNCHANGED rooms_json
    /\ UNCHANGED <<renderVars, laneVars, weekVars, sessionVars, runVars, refresherVars, taskVars, pureVars>>

\* what a call of scrape_week reads: the two files, the clock, the token and
\* the responses of the API
ScrapeInput(st, utcnow, upstream) ==
    [rooms |-> load_json(rooms_json, <<>>), ignore |-> load_json(ignore_json, {}),
     utcnow |-> utcnow, storage |-> st, time |-> now, upstream |-> upstream]

\* the runs of the bot's handlers that have written bookings.json, counted
\* up to MaxWrites
CountWrite(n, out) == IF out.raised \/ n = MaxWrites THEN n ELSE n + 1

\* the call of scrape_week inside a handler, with the token st in storage
CallsScrapeWeek(st, utcnow, upstream) ==
    /\ scrape_in' = ScrapeInput(st, utcnow, upstream)
    /\ scrape_out' = scrape_week(rooms_json, ignore_json, utcnow,
                                 load_bearer_from_storage(st) # <<>>,
                                 upstream, bookings_json)

\* a direct call of scrape_week
RunScrapeWeek(utcnow, upstream) ==
    /\ CallsScrapeWeek(storage, utcnow, upstream)
    /\ UNCHANGED writes
    /\ bookings_json' = scrape_out'.snapshot
    /\ handler' = [name |-> "scrape_week", scraped |-> TRUE]
    /\ fresh_in' = <<>>
    /\ fresh_out' = <<>>
    /\ UNCHANGED <<renderVars, laneVars, weekVars, configVars, sessionVars, refresherVars, taskVars, pureVars>>

\* storage_state.json is written again by a login capture, or is lost
WriteStorage(st) ==
    /\ storage # st
    /\ storage' = st
    /\ UNCHANGED now
    /\ UNCHANGED <<renderVars, laneVars, weekVars, configVars, runVars, refresherVars, taskVars, pureVars>>

\* time passes
Elapse(ms) ==
    /\ now + ms <= StartClock + MaxElapsed * ElapseStep
    /\ now' = now + ms
    /\ UNCHANGED storage
    /\ UNCHANGED <<renderVars, laneVars, weekVars, configVars, runVars, refresherVars, taskVars, pureVars>>

\* a direct call of token_is_fresh
CheckFresh ==
    /\ fresh_in' = [storage |-> storage, time |-> now]
    /\ fresh_out' = <<token_is_fresh(storage, now)>>
    /\ handler' = [name |-> "token_is_fresh", scraped |-> FALSE]
    /\ UNCHANGED <<bookings_json, writes, scrape_in, scrape_out>>
    /\ UNCHANGED <<renderVars, laneVars, weekVars, configVars, sessionVars, refresherVars, taskVars, pureVars>>

\* ok = await asyncio.to_thread(refresh_with_playwright): the refresh runs in
\* a worker thread; every call of scrape_week is made on the event-loop thread
RefreshContextLoop == "loop"
RefreshContext == "thread"

\* a run of scrape_week with the token st sent a request: requests.get, which
\* returns when the response has come or the 30 seconds of timeout are over
Requested(st, out) == load_bearer_from_storage(st) # <<>> /\ out.log # <<>>

\* the blocking calls of one handler run, by the thread that makes them
HandlerCalls(refresh_invoked, requested) ==
    [loop |-> (IF requested THEN {"requests.get"} ELSE {}) \cup
              (IF refresh_invoked /\ RefreshContext = "loop"
               THEN {"refresh_with_playwright"} ELSE {}),
     thread |-> IF refresh_invoked /\ RefreshContext = "thread"
                THEN {"refresh_with_playwright"} ELSE {}]

\* the event loop can start a handler: no refresh occupies its thread
LoopFree == RefreshContext = "thread" \/ in_thread = 0

\* what /rooms saves to bookings.json after scrape_week has returned
RoomsSnapshot(value) == [summaries |-> value.summaries, generated |-> value.title]

\* rooms, the /rooms command, in a channel assert_channel allows.  The exception of
\* scrape_week is caught and reported; render_week draws the returned events.
rooms_command(utcnow, upstream) ==
    /\ LoopFree
    /\ fresh_in' = [storage |-> storage, time |-> now]
    /\ fresh_out' = <<token_is_fresh(storage, now)>>
    /\ IF ~fresh_out'[1]
       THEN /\ handler' = [name |-> "rooms", scraped |-> FALSE]
            /\ UNCHANGED <<bookings_json, writes, scrape_in, scrape_out>>
       ELSE /\ handler' = [name |-> "rooms", scraped |-> TRUE]
            /\ CallsScrapeWeek(storage, utcnow, upstream)
            /\ bookings_json' =
                 IF scrape_out'.raised THEN scrape_out'.snapshot
                 ELSE save_json(scrape_out'.snapshot, RoomsSnapshot(scrape_out'.value))
            /\ writes' = CountWrite(writes, scrape_out')
    /\ calls' = HandlerCalls(FALSE, handler'.scraped /\ Requested(storage, scrape_out'))
    /\ UNCHANGED <<refreshers, in_thread>>
    /\ UNCHANGED <<renderVars, laneVars, weekVars, configVars, sessionVars, refresherVars, pureVars>>

\* post_startup_status, awaited by on_ready (which sets the task variables).
\* has_channel: a channel to post in was found; token_is_fresh is evaluated
\* once for the console and once more before the scrape.
post_startup_status(has_channel, utcnow, upstream) ==
    /\ fresh_in' = [storage |-> storage, time |-> now]
    /\ fresh_out' = IF has_channel
                    THEN <<token_is_fresh(storage, now), token_is_fresh(storage, now)>>
                    ELSE <<token_is_fresh(storage, now)>>
    /\ IF ~has_channel \/ ~fresh_out'[2]
       THEN /\ handler' = [name |-> "post_startup_status", scraped |-> FALSE]
            /\ UNCHANGED <<bookings_json, writes, scrape_in, scrape_out>>
       ELSE /\ handler' = [name |-> "post_startup_status", scraped |-> TRUE]
            /\ CallsScrapeWeek(storage, utcnow, upstream)
            /\ bookings_json' = scrape_out'.snapshot
            /\ writes' = CountWrite(writes, scrape_out')
    /\ calls' = HandlerCalls(FALSE, handler'.scraped /\ Requested(storage, scrape_out'))
    /\ UNCHANGED <<renderVars, laneVars, weekVars, configVars, sessionVars, refresherVars, pureVars>>

\* on_ready: every firing creates a refresher_loop task, then awaits
\* post_startup_status
on_ready(has_channel, utcnow, upstream) ==
    /\ LoopFree
    /\ refreshers < MaxReady
    /\ refreshers' = refreshers + 1
    /\ UNCHANGED in_thread
    /\ post_startup_status(has_channel, utcnow, upstream)

\* ok = await asyncio.to_thread(refresh_with_playwright): the call is made on
\* every iteration, whatever the token in storage st at time t
InvokesRefreshBelowThreshold(st, t) ==
    /\ get_current_token(st) # <<>>
    /\ minutes_remaining_from_token(get_current_token(st)[1], t) < 30
InvokesRefresh(st, t) == TRUE

\* the except clauses of the loop body and of probe_random_room: neither a
\* raising refresh nor a raising scrape leaves the while loop
EndsLoopOnRaise(outcome, probe_raised) == outcome = "raise" \/ probe_raised
EndsLoop(outcome, probe_raised) == FALSE

\* while not bot.is_closed(): a refresher_loop task that is not in its refresh
\* starts an iteration and awaits asyncio.to_thread(refresh_with_playwright)
refresher_begin ==
    /\ LoopFree
    /\ in_thread < refreshers
    /\ ticks + in_thread < MaxTicks
    /\ in_thread' = in_thread + 1
    /\ handler' = [name |-> "refresher_loop", scraped |-> FALSE]
    /\ fresh_in' = <<>>
    /\ fresh_out' = <<>>
    /\ calls' = HandlerCalls(FALSE, FALSE)
    /\ UNCHANGED <<refreshers, bookings_json, writes, scrape_in, scrape_out>>
    /\ UNCHANGED <<renderVars, laneVars, weekVars, configVars, sessionVars,
                   refresherVars, pureVars>>

\* the rest of an iteration of refresher_loop, from the return of the refresh:
\* the messages, probe_random_room and the 30 minutes of sleep.  outcome: what
\* refresh_with_playwright did; saved: the token its storage state holds when
\* it returned True.
refresher_loop(outcome, saved, utcnow, upstream) ==
    /\ in_thread > 0
    /\ in_thread' = in_thread - 1
    /\ ticks < MaxTicks
    /\ ticks' = ticks + 1
    /\ refreshed' = InvokesRefresh(storage, now)
    /\ storage' = IF refreshed' /\ outcome = "true" THEN saved ELSE storage
    /\ warned' = CASE refreshed' /\ outcome = "true" -> FALSE
                   [] refreshed' /\ outcome = "false" -> TRUE
                   [] OTHER -> warned
    /\ run_warnings' = CASE refreshed' /\ outcome = "true" -> 0
                         [] refreshed' /\ outcome = "false" /\ ~warned -> run_warnings + 1
                         [] OTHER -> run_warnings
    /\ run_errors' = CASE refreshed' /\ outcome = "true" -> 0
                       [] refreshed' /\ outcome = "raise" -> run_errors + 1
                       [] OTHER -> run_errors
    /\ fail_run' = CASE refreshed' /\ outcome = "true" -> 0
                     [] refreshed' -> fail_run + 1
                     [] OTHER -> fail_run
    /\ fresh_in' = <<>>
    /\ fresh_out' = <<>>
    /\ handler' = [name |-> "probe_random_room", scraped |-> TRUE]
    /\ CallsScrapeWeek(storage', utcnow, upstream)
    /\ bookings_json' = scrape_out'.snapshot
    /\ writes' = CountWrite(writes, scrape_out')
    /\ now' = now + SleepSeconds * 1000
    /\ calls' = HandlerCalls(refreshed', Requested(storage', scrape_out'))
    /\ refreshers' = IF EndsLoop(outcome, scrape_out'.raised) THEN refreshers - 1
                     ELSE refreshers
    /\ UNCHANGED <<renderVars, laneVars, weekVars, configVars, pureVars>>

\* friends.json gets one more id
EditFriends(raw) ==
    /\ friends_json' = save_json(friends_json,
                           [ids |-> load_json(friends_json, [ids |-> {}]).ids \cup {raw}])
    /\ friend_out' = <<>>
    /\ UNCHANGED booking
    /\ UNCHANGED <<renderVars, laneVars, weekVars, configVars, sessionVars, runVars,
                   refresherVars, taskVars, labelVars>>

\* the API returns a booking
ReceiveBooking(b) ==
    /\ booking' = b
    /\ friend_out' = <<>>
    /\ UNCHANGED friends_json
    /\ UNCHANGED <<renderVars, laneVars, weekVars, configVars, sessionVars, runVars,
                   refresherVars, taskVars, labelVars>>

\* list_friend_bookings: load_friends, then is_friend_booking on the booking
MatchBooking ==
    /\ friends_json.exists
    /\ booking # NoBooking
    /\ friend_out' =
         LET f == load_friends(friends_json)
         IN  [booking |-> booking, ids |-> f.ids, match_fields |-> f.match_fields,
              result |-> is_friend_booking(booking, f.ids, f.match_fields)]
    /\ UNCHANGED <<friends_json, booking>>
    /\ UNCHANGED <<renderVars, laneVars, weekVars, configVars, sessionVars, runVars,
                   refresherVars, taskVars, labelVars>>

\* scrape_week: _, _, monday = workweek_bounds_utc()
ResolveWeek(utcnow) ==
    /\ label_in' = <<workweek_bounds_utc(utcnow).monday>>
    /\ label_out' = <<>>
    /\ UNCHANGED <<renderVars, laneVars, weekVars, configVars, sessionVars, runVars,
                   refresherVars, taskVars, friendVars>>

\* scrape_week: pretty_range = _format_week_range(monday)
FormatWeekRange ==
    /\ label_in # <<>>
    /\ label_out' = [monday |-> label_in[1], text |-> _format_week_range(label_in[1])]
    /\ UNCHANGED label_in
    /\ UNCHANGED <<renderVars, laneVars, weekVars, configVars, sessionVars, runVars,
                   refresherVars, taskVars, friendVars>>
-----------------------------------------------------------------------------
(* Specifications *)

AddMergeEvent == \E e \in MergeInputs : AddEvent(e)
AddGroupEvent == \E e \in GroupInputs : AddEvent(e)
AddLaneBlock == \E b \in LaneInputs : AddBlock(b)
ReadClock == \E day \in AnchorDays, sec \in AnchorSeconds : ReadAnchor(day, sec)

NextMerge == AddMergeEvent \/ render_week_calendar
SpecMerge == Init /\ [][NextMerge]_vars

NextGroup == AddGroupEvent \/ render_week_calendar
SpecGroup == Init /\ [][NextGroup]_vars

AddClampEvent == \E e \in ClampInputs : AddEvent(e)
NextClamp == AddClampEvent \/ render_week_calendar
SpecClamp == Init /\ [][NextClamp]_vars

NextLanes == AddLaneBlock \/ AssignLanes
SpecLanes == Init /\ [][NextLanes]_vars

NextWeek == ReadClock \/ WorkweekBounds
SpecWeek == Init /\ [][NextWeek]_vars

AddRoom == \E r \in ScrapeRooms : EditRoster(r)
IgnoreAdd == \E code \in IgnoreCodes : ign_add(code)
IgnoreRemove == \E code \in IgnoreCodes : ign_remove(code)
CallScrapeWeek ==
    \E utcnow \in ScrapeAnchors :
        \E upstream \in Upstreams(rooms_json, utcnow) : RunScrapeWeek(utcnow, upstream)

CallScrapeWeekDates ==
    \E utcnow \in ScrapeAnchors :
        \E upstream \in DateUpstreams(rooms_json, utcnow) : RunScrapeWeek(utcnow, upstream)
NextDates == AddRoom \/ CallScrapeWeekDates
SpecDates == Init /\ [][NextDates]_vars

NextScrape == AddRoom \/ IgnoreAdd \/ IgnoreRemove \/ CallScrapeWeek
SpecScrape == Init /\ [][NextScrape]_vars

AddBotRoom == \E r \in BotRooms : EditRoster(r)
RoomsCommand ==
    \E utcnow \in ScrapeAnchors :
        \E upstream \in BotUpstreams(rooms_json, utcnow) : rooms_command(utcnow, upstream)
Startup ==
    \E has_channel \in BOOLEAN, utcnow \in ScrapeAnchors :
        \E upstream \in BotUpstreams(rooms_json, utcnow) :
            on_ready(has_channel, utcnow, upstream)
RefresherTick ==
    \E outcome \in RefreshOutcomes, saved \in SavedTokens(storage, now),
       utcnow \in ScrapeAnchors :
        \E upstream \in BotUpstreams(rooms_json, utcnow) :
            refresher_loop(outcome, saved, utcnow, upstream)

NextBot == AddBotRoom \/ RoomsCommand \/ Startup \/ refresher_begin \/ RefresherTick
SpecBot == Init /\ [][NextBot]_vars
LoginCapture == \E st \in FreshStorages : WriteStorage(st)
ClockTick == Elapse(ElapseStep)

AddFriendId == \E raw \in FriendsRaw : EditFriends(raw)
GetBooking == \E b \in Bookings : ReceiveBooking(b)
NextFriend == AddFriendId \/ GetBooking \/ MatchBooking
SpecFriend == Init /\ [][NextFriend]_vars

ReadLabelClock == \E utcnow \in LabelAnchors : ResolveWeek(utcnow)
NextLabel == ReadLabelClock \/ FormatWeekRange
SpecLabel == Init /\ [][NextLabel]_vars

NextFresh == LoginCapture \/ ClockTick \/ CheckFresh
SpecFresh == Init /\ [][NextFresh]_vars
Next ==
    \/ NextMerge \/ NextGroup \/ NextClamp \/ NextLanes \/ NextWeek \/ NextScrape \/ NextDates
    \/ NextBot \/ NextFresh \/ NextFriend \/ NextLabel
Spec == Init /\ [][Next]_vars

-----------------------------------------------------------------------------
(* Claims about _merge_same_room: tmp is its input, merged its output *)

SameDayRoom(a, b) == a.day_index = b.day_index /\ a.room_code = b.room_code

\* output o has the day and room of input a and spans a's range
Covers(o, a) ==
    /\ SameDayRoom(o, a)
    /\ o.start_hour <= a.start_hour
    /\ a.end_hour <= o.end_hour

\* the ranges overlap or touch (within eps)
OverlapOrTouch(a, b) ==
    /\ a.start_hour <= b.end_hour + Eps
    /\ b.start_hour <= a.end_hour + Eps

\* the places of merged that cover input a
Holders(a) == {j \in 1..Len(merged) : Covers(merged[j], a)}

\* the places of tmp that output o absorbed
Absorbed(o) == {i \in 1..Len(tmp) : Covers(o, tmp[i])}

\* C1: every input interval lies in exactly one output interval of its own day
\* and room; two inputs of the same day and room that overlap or touch lie in
\* the same one, which so covers their union; two inputs of different rooms on one
\* day lie in two different outputs, one per room, even with identical ranges;
\* and every output starts and ends where inputs of its own room do.
C1_MergeCorrect ==
    rendered =>
        /\ \A i \in 1..Len(tmp) : Cardinality(Holders(tmp[i])) = 1
        /\ \A i, j \in 1..Len(tmp) :
              (SameDayRoom(tmp[i], tmp[j]) /\ OverlapOrTouch(tmp[i], tmp[j]))
                  => Holders(tmp[i]) = Holders(tmp[j])
        /\ \A i, j \in 1..Len(tmp) :
              (tmp[i].room_code # tmp[j].room_code /\ tmp[i].day_index = tmp[j].day_index)
                  => \E p, q \in 1..Len(merged) :
                        /\ p # q
                        /\ Covers(merged[p], tmp[i])
                        /\ Covers(merged[q], tmp[j])
        /\ \A p \in 1..Len(merged) :
              /\ \E i \in Absorbed(merged[p]) : tmp[i].start_hour = merged[p].start_hour
              /\ \E i \in Absorbed(merged[p]) : tmp[i].end_hour = merged[p].end_hour

\* two inputs that only touch within eps are in one output, while two rooms with
\* the same window stay apart
C1_Witness ==
    /\ rendered
    /\ \E i, j \in 1..Len(tmp) :
          /\ SameDayRoom(tmp[i], tmp[j])
          /\ tmp[i].end_hour < tmp[j].start_hour
          /\ Holders(tmp[i]) = Holders(tmp[j])
    /\ \E i, j \in 1..Len(tmp) :
          /\ tmp[i].room_code # tmp[j].room_code
          /\ tmp[i].day_index = tmp[j].day_index
          /\ tmp[i].start_hour = tmp[j].start_hour
          /\ tmp[i].end_hour = tmp[j].end_hour

\* C2: an output interval is ignored exactly when one of the input intervals it
\* absorbed is ignored.
C2_FlagPropagation ==
    rendered =>
        \A j \in 1..Len(merged) :
            merged[j].ignored <=> (\E i \in Absorbed(merged[j]) : tmp[i].ignored)

\* an output made of three inputs whose only ignored piece is neither the first
\* nor the last of the sorted run, next to an output of unflagged pieces only
C2_Witness ==
    /\ rendered
    /\ \E j \in 1..Len(merged) :
          /\ merged[j].ignored
          /\ Cardinality(Absorbed(merged[j])) = 3
          /\ \E i \in Absorbed(merged[j]) :
                /\ tmp[i].ignored
                /\ \A k \in Absorbed(merged[j]) \ {i} : ~tmp[k].ignored
                /\ \E k \in Absorbed(merged[j]) : tmp[k].start_hour < tmp[i].start_hour
                /\ \E k \in Absorbed(merged[j]) : tmp[k].start_hour > tmp[i].start_hour

\* C3: merging the output again gives the same intervals, none fewer.
C3_MergeIdempotent ==
    rendered =>
        \A again \in {_merge_same_room(merged)} :
            /\ Range(again) = Range(merged)
            /\ Len(again) = Len(merged)

\* a first merge that did reduce the list and left several intervals
C3_Witness ==
    /\ rendered
    /\ Len(merged) < Len(tmp)
    /\ Len(merged) >= 2
    /\ Range(_merge_same_room(merged)) = Range(merged)

\* C4: two distinct output intervals of the same day and room are disjoint and do
\* not touch: one ends strictly before the other starts.
C4_MergedDisjoint ==
    rendered =>
        \A p, q \in 1..Len(merged) :
            (p # q /\ SameDayRoom(merged[p], merged[q]))
                => \/ merged[p].end_hour < merged[q].start_hour
                   \/ merged[q].end_hour < merged[p].start_hour

\* two outputs of one day and room, from inputs a little more than eps apart
C4_Witness ==
    /\ rendered
    /\ \E p, q \in 1..Len(merged) :
          /\ p # q
          /\ SameDayRoom(merged[p], merged[q])
          /\ merged[p].end_hour + Eps + 1 = merged[q].start_hour

-----------------------------------------------------------------------------
(* Claims about _assign_lanes *)

\* the half-open ranges [start_hour, end_hour) of two blocks intersect
Intersect(a, b) == a.start_hour < b.end_hour /\ b.start_hour < a.end_hour

\* C5: two placed blocks of a day whose half-open ranges intersect have different
\* lane_index values (blocks that only touch may share a lane).
C5_LaneNonOverlap ==
    lanes_done =>
        \A p, q \in 1..Len(lanes_result) :
            (p # q /\ Intersect(lanes_result[p].block, lanes_result[q].block))
                => lanes_result[p].lane_index # lanes_result[q].lane_index

\* a block that starts where another ends shares its lane, beside a pair that
\* intersects
C5_Witness ==
    /\ lanes_done
    /\ \E p, q \in 1..Len(lanes_result) :
          /\ lanes_result[p].block.end_hour = lanes_result[q].block.start_hour
          /\ lanes_result[p].lane_index = lanes_result[q].lane_index
    /\ \E p, q \in 1..Len(lanes_result) :
          /\ p # q
          /\ Intersect(lanes_result[p].block, lanes_result[q].block)

\* the number of blocks of bs that hold the instant t
HoldersAt(bs, t) ==
    Cardinality({i \in 1..Len(bs) : bs[i].start_hour <= t /\ t < bs[i].end_hour})

\* the largest number of blocks that overlap at one instant; such an instant can
\* be taken to be the start of one of them
MaxClique(bs) ==
    CHOOSE n \in 0..Len(bs) :
        /\ \A i \in 1..Len(bs) : HoldersAt(bs, bs[i].start_hour) <= n
        /\ n = 0 \/ \E i \in 1..Len(bs) : HoldersAt(bs, bs[i].start_hour) = n

\* the number of lanes a result uses: its largest lane_index plus one
LanesUsed(pl) ==
    CHOOSE n \in 0..Len(pl) :
        /\ \A p \in 1..Len(pl) : pl[p].lane_index < n
        /\ n = 0 \/ \E p \in 1..Len(pl) : pl[p].lane_index = n - 1

\* C6: for blocks with start_hour < end_hour, passed in any order, no lane_index
\* exceeds the largest number of blocks that overlap at one instant; indeed the
\* number of lanes used does not.
C6_LaneMinimal ==
    lanes_done =>
        /\ \A p \in 1..Len(lanes_result) :
              lanes_result[p].lane_index <= MaxClique(blocks_for_day)
        /\ LanesUsed(lanes_result) <= MaxClique(blocks_for_day)

\* blocks passed out of order, two of which overlap, placed in exactly as many
\* lanes as overlap
C6_Witness ==
    /\ lanes_done
    /\ Len(blocks_for_day) = 3
    /\ blocks_for_day[1].start_hour > blocks_for_day[2].start_hour
    /\ MaxClique(blocks_for_day) = 2
    /\ LanesUsed(lanes_result) = 2

\* C7 as stated: every block of the returned list carries the total number of
\* lanes opened for the day.
C7_SameLaneCountEverywhere ==
    rendered =>
        \A d \in Days : \A p \in 1..Len(placed[d]) :
            placed[d][p].lane_count = LanesUsed(placed[d])

\* C7, amended: a block's lane_count is the number of lanes opened up to its own
\* placement; the last block's is the total; and render_week_calendar's max_lanes,
\* the one width every block of the day is drawn with, is that total.
C7_RunningLaneCount ==
    rendered =>
        \A d \in Days :
            /\ \A p \in 1..Len(placed[d]) :
                  placed[d][p].lane_count = LanesUsed(SubSeq(placed[d], 1, p))
            /\ max_lanes[d] = LanesUsed(placed[d])

\* a block placed in lane 0 after two lanes were opened: its count is 2, while the
\* first block of the day carries 1
C7_Witness ==
    /\ rendered
    /\ \E d \in Days : \E p \in 1..Len(placed[d]) :
          /\ placed[d][p].lane_index = 0
          /\ placed[d][p].lane_count = 2
          /\ placed[d][1].lane_count = 1
          /\ max_lanes[d] = 2

-----------------------------------------------------------------------------
(* Claims about _group_identical_windows: merged is its input, blocks its output *)

BlockKey(b) == <<b.day_index, b.start_hour, b.end_hour, b.ignored>>

\* an interval's own (day_index, start_hour, end_hour, ignored)
OwnKey(m) == <<m.day_index, m.start_hour, m.end_hour, m.ignored>>

\* the same with start and end rounded to four decimals
RoundedKey(m) == <<m.day_index, Round4(m.start_hour), Round4(m.end_hour), m.ignored>>

\* the entry an interval adds: its room code, "?" when the code is None or empty
EntryOf(m) == IF m.room_code = None \/ m.room_code = "" THEN "?" ELSE m.room_code

Occurrences(rooms, x) == Cardinality({n \in 1..Len(rooms) : rooms[n] = x})

RECURSIVE TotalEntries(_, _)
TotalEntries(bs, p) == IF p > Len(bs) THEN 0 ELSE Len(bs[p].rooms) + TotalEntries(bs, p + 1)

NoRepeat(rooms) == \A x \in Range(rooms) : Occurrences(rooms, x) = 1

\* C8 as stated: each interval adds one entry to exactly one block, the block with
\* its own (day_index, start_hour, end_hour, ignored), and no block's rooms holds
\* an entry twice.
C8_OwnBlockNoRepeat ==
    rendered =>
        /\ \A i \in 1..Len(merged) :
              /\ Cardinality({p \in 1..Len(blocks) : BlockKey(blocks[p]) = OwnKey(merged[i])}) = 1
              /\ \A p \in 1..Len(blocks) :
                    BlockKey(blocks[p]) = OwnKey(merged[i])
                        => EntryOf(merged[i]) \in Range(blocks[p].rooms)
        /\ TotalEntries(blocks, 1) = Len(merged)
        /\ \A p \in 1..Len(blocks) : NoRepeat(blocks[p].rooms)

\* the intervals that fall into block b
Contributors(b) == {i \in 1..Len(merged) : RoundedKey(merged[i]) = BlockKey(b)}

\* C8, amended: each interval adds one entry to exactly one block, the block whose
\* (day_index, start_hour, end_hour, ignored) is its own with start and end
\* rounded to four decimals; a block's rooms holds an entry once for each of its
\* intervals that gives it, so twice only when two of its intervals give the same
\* entry.
C8_RoundedBlockOneEntryEach ==
    rendered =>
        /\ \A i \in 1..Len(merged) :
              Cardinality({p \in 1..Len(blocks) : BlockKey(blocks[p]) = RoundedKey(merged[i])}) = 1
        /\ \A p \in 1..Len(blocks) :
              /\ Contributors(blocks[p]) # {}
              /\ \A x \in Range(blocks[p].rooms) \cup {EntryOf(merged[i]) : i \in Contributors(blocks[p])} :
                    Occurrences(blocks[p].rooms, x) =
                        Cardinality({i \in Contributors(blocks[p]) : EntryOf(merged[i]) = x})
        /\ TotalEntries(blocks, 1) = Len(merged)
        /\ \A p \in 1..Len(blocks) :
              (\A i, j \in Contributors(blocks[p]) :
                    i # j => EntryOf(merged[i]) # EntryOf(merged[j]))
                  => NoRepeat(blocks[p].rooms)

\* a block of two rooms whose window is not its intervals' own but the rounded one
C8_Witness ==
    /\ rendered
    /\ \E p \in 1..Len(blocks) :
          /\ Len(blocks[p].rooms) = 2
          /\ NoRepeat(blocks[p].rooms)
          /\ \A i \in Contributors(blocks[p]) : merged[i].start_hour # blocks[p].start_hour

\* None and the empty code in one window: "?" twice in one block
C8_RepeatedPlaceholder ==
    rendered => \A p \in 1..Len(blocks) : Occurrences(blocks[p].rooms, "?") <= 1

-----------------------------------------------------------------------------
(* Claims about workweek_bounds_utc *)

IsMonday(day) == weekday(day) = 0

\* C9: for an anchor on Monday to Friday the monday returned is the latest Monday
\* on or before the anchor's date; for an anchor on Saturday or Sunday it is the
\* first Monday after the anchor's date.
C9_WeekResolution ==
    window # <<>> =>
        /\ IsMonday(window.monday)
        /\ weekday(anchor.day) <= 4 =>
              /\ window.monday <= anchor.day
              /\ anchor.day - window.monday < 7
        /\ weekday(anchor.day) >= 5 =>
              /\ window.monday > anchor.day
              /\ window.monday - anchor.day <= 7

\* a Saturday anchor resolved to the Monday two days later
C9_Witness ==
    /\ window # <<>>
    /\ weekday(anchor.day) = 5
    /\ window.monday = anchor.day + 2

\* C10: monday is a Monday, start is that Monday 00:00:00 Z, end is the Friday of
\* the same week 23:59:59 Z, and end - start is five days less one second.
C10_WindowShape ==
    window # <<>> =>
        /\ IsMonday(window.monday)
        /\ window.start_iso = [date |-> window.monday, hh |-> 0, mm |-> 0, ss |-> 0, zone |-> "Z"]
        /\ window.end_iso = [date |-> window.monday + 4, hh |-> 23, mm |-> 59, ss |-> 59, zone |-> "Z"]
        /\ weekday(window.end_iso.date) = 4
        /\ (window.end.day - window.start.day) * SecondsPerDay
              + (window.end.sec - window.start.sec) = 5 * SecondsPerDay - 1

\* the window of an anchor late on a Sunday
C10_Witness ==
    /\ window # <<>>
    /\ weekday(anchor.day) = 6
    /\ anchor.sec = SecondsPerDay - 1
    /\ window.end_iso.date = anchor.day + 5

-----------------------------------------------------------------------------
(* Claims about scrape_week: scrape_out is the outcome of its latest call *)

Called == scrape_out # <<>>

\* C11: a call of scrape_week that finds an empty roster raises before any
\* room is fetched and returns no (summaries, events, warnings, title) tuple.
C11_EmptyRosterRaises ==
    (Called /\ scrape_in.rooms = <<>>) =>
        /\ scrape_out.raised
        /\ scrape_out.log = <<>>
        /\ scrape_out.value = <<>>

C11_Witness ==
    /\ Called
    /\ scrape_in.rooms = <<>>
    /\ scrape_out.raised
    /\ scrape_out.error = "rooms.json is empty"

\* the rooms of the latest call whose fetch fails: no token to send, a
\* response that is not a 200, or a friend's booking whose dates do not parse
FetchFails(i) ==
    \/ scrape_in.storage.kind = "absent"
    \/ scrape_in.upstream[scrape_in.rooms[i].id].status # 200
    \/ \E b \in Range(scrape_in.upstream[scrape_in.rooms[i].id].items) :
           b.friend_match /\ ~b.iso_dates
FailingRooms == {i \in 1..Len(scrape_in.rooms) : FetchFails(i)}
FirstFailing == CHOOSE i \in FailingRooms : \A j \in FailingRooms : i <= j

\* C12: when the fetch of a room of the roster fails, scrape_week raises at
\* that room: the rooms fetched are those up to and including the first failing
\* one, no later room is fetched, and no tuple is returned.
C12_AllOrNothing ==
    (Called /\ FailingRooms # {}) =>
        /\ scrape_out.raised
        /\ scrape_out.value = <<>>
        /\ scrape_out.log = [i \in 1..FirstFailing |-> scrape_in.rooms[i].id]

C12_Witness ==
    /\ Called
    /\ Len(scrape_in.rooms) = 2
    /\ scrape_in.upstream[scrape_in.rooms[1].id].status = 200
    /\ scrape_in.upstream[scrape_in.rooms[1].id].items # <<>>
    /\ FailingRooms = {2}
    /\ scrape_out.raised
    /\ scrape_out.value = <<>>
    /\ Len(scrape_out.log) = 2

\* the latest call returned (summaries, events, warnings, title)
Returned == Called /\ ~scrape_out.raised

\* the indexes of a sequence whose element satisfies a test
InIgnored(seq) == {i \in 1..Len(seq) : seq[i].room_code \in scrape_in.ignore}
NotInIgnored(seq) == {i \in 1..Len(seq) : seq[i].room_code \notin scrape_in.ignore}
Flagged(evs) == {i \in 1..Len(evs) : evs[i].ignored}

\* a summary starts on a Melbourne Saturday or Sunday
StartsOnWeekend(s) == (s.start_local.date + 6) % 7 >= 5
OnWeekdays(seq) == SelectSeq(seq, LAMBDA s : ~StartsOnWeekend(s))

\* C13: every booking of the result whose room_code is in the ignore list has a
\* flagged event and one entry in warnings, and no other booking is flagged or
\* warned about: as many flagged events and as many warnings as there are
\* summaries of ignored rooms, all of them for ignored rooms.
C13_IgnoredFlaggedAndWarned ==
    Returned =>
        LET v == scrape_out.value
            n == Cardinality(InIgnored(v.summaries))
        IN  /\ Cardinality(Flagged(v.events)) = n
            /\ Len(v.warnings) = n
            /\ Flagged(v.events) = InIgnored(v.events)
            /\ NotInIgnored(v.warnings) = {}

\* a Saturday booking of an ignored room is in summaries, and there is no
\* flagged event and no warning
C13_WeekendIgnoredUnwarned ==
    /\ Returned
    /\ \E i \in InIgnored(scrape_out.value.summaries) :
            StartsOnWeekend(scrape_out.value.summaries[i])
    /\ Len(scrape_out.value.warnings) < Cardinality(InIgnored(scrape_out.value.summaries))

\* what holds of the bookings that start on Monday to Friday
C13_WeekdayIgnoredFlaggedAndWarned ==
    Returned =>
        LET v == scrape_out.value
            n == Cardinality(InIgnored(OnWeekdays(v.summaries)))
        IN  /\ Cardinality(Flagged(v.events)) = n
            /\ Len(v.warnings) = n
            /\ Flagged(v.events) = InIgnored(v.events)
            /\ NotInIgnored(v.warnings) = {}

\* C14: in the result of scrape_week the bookings that start on Saturday or
\* Sunday are in summaries and give no event; each booking that starts on
\* Monday to Friday gives one event, in the order of summaries, with its
\* day_index in 0..4: there are as many events as weekday summaries.
C14_WeekendNoEvent ==
    Returned =>
        LET v == scrape_out.value
            wk == OnWeekdays(v.summaries)
        IN  /\ Len(v.events) = Len(wk)
            /\ \A i \in 1..Len(v.events) :
                /\ v.events[i].day_index \in 0..4
                /\ v.events[i].day_index = (wk[i].start_local.date + 6) % 7
                /\ v.events[i].room_code = wk[i].room_code
                /\ v.events[i].label[1] = wk[i].start_local.hh
                /\ v.events[i].label[2] = wk[i].start_local.mm

C14_Witness ==
    /\ Returned
    /\ \E i \in 1..Len(scrape_out.value.summaries) :
            StartsOnWeekend(scrape_out.value.summaries[i])
    /\ Len(scrape_out.value.events) >= 2
    /\ Len(scrape_out.value.events) < Len(scrape_out.value.summaries)

-----------------------------------------------------------------------------
(* Claims about the handlers that reach scrape_week *)

\* the latest handler run called scrape_week and scrape_week returned
RunSucceeded == handler.scraped /\ Returned

\* the Monday the latest call resolved from its clock
MondayOfRun ==
    LET wd == (scrape_in.utcnow.day + 6) % 7
    IN  IF wd >= 5 THEN scrape_in.utcnow.day + (7 - wd) ELSE scrape_in.utcnow.day - wd

\* the snapshot of the spec: the run's summaries and its Monday, nothing else
SnapshotOfRun ==
    [exists |-> TRUE,
     data |-> [summaries |-> scrape_out.value.summaries, week |-> <<"date", MondayOfRun>>]]

\* C15: after every successful aggregation run, from /rooms, from startup or
\* from the refresher's probe, bookings.json holds the summaries of that run
\* and the Monday it resolved, and nothing of an earlier snapshot.
C15_SnapshotHoldsWeek == RunSucceeded => bookings_json = SnapshotOfRun

\* after a successful /rooms the snapshot has the summaries and the title under
\* "generated", and no "week"
C15_RoomsSnapshotWithoutWeek ==
    /\ RunSucceeded
    /\ handler.name = "rooms"
    /\ scrape_out.value.summaries # <<>>
    /\ bookings_json.exists
    /\ DOMAIN bookings_json.data = {"summaries", "generated"}

\* what holds of the runs started by startup, by the probe or by a direct call
C15_SnapshotAfterScrapeWeek ==
    (RunSucceeded /\ handler.name # "rooms") => bookings_json = SnapshotOfRun

\* the latest handler run sent a request for a room
Fetched == handler.scraped /\ Called /\ scrape_out.log # <<>>

\* the token scrape_week sent was within the margin or past it
SentStaleToken ==
    /\ scrape_in.storage.kind = "jwt"
    /\ scrape_in.storage.exp * 1000 <= scrape_in.time + 300 * 1000

\* C16: a handler run fetches only after token_is_fresh has been evaluated
\* in that run and has returned true, on the /rooms path, the startup path and
\* the refresher's probe path alike; a stale token is never sent.
C16_FreshBeforeFetch ==
    Fetched =>
        /\ fresh_out # <<>>
        /\ fresh_out[Len(fresh_out)]
        /\ ~SentStaleToken

\* the probe of the refresher fetches with a token that is past the margin,
\* and token_is_fresh was not evaluated
C16_ProbeFetchesWhenStale ==
    /\ Fetched
    /\ handler.name = "probe_random_room"
    /\ fresh_out = <<>>
    /\ SentStaleToken

\* what holds of /rooms and of the startup status
C16_CommandAndStartupGated ==
    (Fetched /\ handler.name \in {"rooms", "post_startup_status"}) =>
        /\ fresh_out # <<>>
        /\ fresh_out[Len(fresh_out)]
        /\ ~SentStaleToken

-----------------------------------------------------------------------------
(* Claims about token_is_fresh: fresh_in is what its latest call read *)

Checked == fresh_out # <<>>

\* C17: token_is_fresh returns true exactly when the decoded expiry is strictly
\* more than 300 seconds after the current time: 301 seconds ahead is fresh;
\* 300 seconds, 299 seconds and a past expiry are stale.
C17_FreshThreshold ==
    (Checked /\ fresh_in.storage.kind = "jwt") =>
        LET exp == fresh_in.storage.exp
            t == fresh_in.time
        IN  /\ fresh_out[1] <=> (exp * 1000 > t + 300 * 1000)
            /\ (exp * 1000 = t + 301 * 1000) => fresh_out[1]
            /\ (exp * 1000 = t + 300 * 1000) => ~fresh_out[1]
            /\ (exp * 1000 = t + 299 * 1000) => ~fresh_out[1]
            /\ (exp * 1000 < t) => ~fresh_out[1]

\* an expiry exactly 300 seconds ahead has been found stale
C17_Witness ==
    /\ Checked
    /\ fresh_in.storage.kind = "jwt"
    /\ fresh_in.storage.exp * 1000 = fresh_in.time + 300 * 1000
    /\ fresh_out = <<FALSE>>

\* the token the latest call read is missing, malformed or undecodable
UnknownKinds == {"absent", "malformed", "undecodable"}

\* C18 as stated: token_is_fresh returns true for a missing, a malformed and an
\* undecodable token alike
C18_UnknownAlwaysFresh ==
    (Checked /\ fresh_in.storage.kind \in UnknownKinds) => fresh_out[1]

\* C18: token_is_fresh always returns a boolean; for a token that is there and
\* cannot be parsed (malformed, undecodable) it returns true; for a missing
\* token, where load_bearer_from_storage raises, it returns false.
C18_UnknownTokenPolicy ==
    Checked =>
        /\ \A i \in 1..Len(fresh_out) : fresh_out[i] \in BOOLEAN
        /\ fresh_in.storage.kind \in {"malformed", "undecodable"} => fresh_out[1]
        /\ fresh_in.storage.kind = "absent" => ~fresh_out[1]

C18_Witness ==
    /\ Checked
    /\ fresh_in.storage.kind = "undecodable"
    /\ fresh_out = <<TRUE>>

\* a missing token has been reported as not fresh
C18_MissingTokenStale ==
    /\ Checked
    /\ fresh_in.storage.kind = "absent"
    /\ fresh_out = <<FALSE>>

-----------------------------------------------------------------------------
(* Claims about refresher_loop *)

\* minutes until the expiry of the token st at time t (milliseconds)
RemainingMinutes(st, t) ==
    IF st.kind = "jwt"
    THEN (IF st.exp * 1000 <= t THEN 0 ELSE (st.exp * 1000 - t) \div (60 * 1000))
    ELSE 9999

\* C19 as stated: an iteration of the refresher loop calls the refresh only
\* when the token it finds has less than 30 minutes left
C19_RefreshOnlyBelowThreshold ==
    [][(ticks' = ticks + 1 /\ refreshed') => RemainingMinutes(storage, now) < 30]_vars

\* C19: every iteration of the refresher loop calls the refresh, with 30
\* minutes or more left as well as with less: the remaining lifetime is not
\* looked at.
C19_RefreshEveryTick == ticks > 0 => refreshed

\* an iteration has called the refresh (which raised, so the token stayed)
\* with a token that had 60 minutes left
C19_Witness ==
    /\ ticks = 1
    /\ refreshed
    /\ fail_run = 1
    /\ RemainingMinutes(scrape_in.storage, scrape_in.time) = 60

\* C20: every run of consecutive failed refreshes, by a false result or by an
\* exception, has printed exactly one message, on its first failed iteration.
C20_OneWarningPerFailureRun ==
    fail_run >= 1 => run_warnings + run_errors = 1

\* two consecutive refreshes raised and "refresher error" was printed twice
C20_RepeatedError ==
    /\ fail_run = 2
    /\ run_errors = 2
    /\ run_warnings = 0
    /\ ~warned

-----------------------------------------------------------------------------
(* Claims about the refresher_loop tasks and the event loop *)

\* C21: a failed refresh or a failed probe never ends the refresher loop: an
\* iteration in which the refresh raised or the probe's scrape raised leaves
\* the task in its while loop, and the iteration that follows a failed refresh
\* calls the refresh again.
C21_FailureKeepsLoop ==
    [][ticks' = ticks + 1 =>
          /\ (fail_run' >= 1 \/ scrape_out'.raised) => refreshers' = refreshers
          /\ fail_run >= 1 => refreshed']_vars

\* the refresh has failed twice in a row and the probe's scrape has raised,
\* and the task is still there
C21_Witness ==
    /\ fail_run >= 2
    /\ refreshed
    /\ handler.name = "probe_random_room"
    /\ scrape_out.raised
    /\ refreshers >= 1

\* C22: at most one refresher_loop task is active at any time, however often
\* on_ready fires.
C22_AtMostOneRefresher == refreshers <= 1

\* two refresher_loop tasks are in refresh_with_playwright at the same time
C22_TwoRefreshesAtOnce == refreshers = 2 /\ in_thread = 2

\* the latest handler run sent a request to the API
SentRequest == Fetched /\ load_bearer_from_storage(scrape_in.storage) # <<>>

\* C23: a refresher tick never stalls the event loop: no blocking call of an
\* iteration is made on the loop's thread.
C23_TickNeverStalls ==
    handler.name = "probe_random_room" => calls.loop = {}

\* C23, as the code has it: the refresh of an iteration runs in a worker
\* thread and never on the loop's thread, and while it runs the loop can start
\* and finish /rooms; the requests of a scrape, the probe's included, are made
\* on the loop's thread.
C23_RefreshOffLoop ==
    /\ "refresh_with_playwright" \notin calls.loop
    /\ (handler.name = "probe_random_room" /\ refreshed)
           => "refresh_with_playwright" \in calls.thread
    /\ in_thread > 0 => LoopFree
    /\ SentRequest => "requests.get" \in calls.loop

\* /rooms has scraped and returned while a refresh was running in its thread
C23_Witness ==
    /\ in_thread > 0
    /\ handler.name = "rooms"
    /\ SentRequest
    /\ ~scrape_out.raised
    /\ calls.loop = {"requests.get"}

\* the probe of an iteration has sent a request on the loop's thread
C23_ProbeOnLoop ==
    /\ handler.name = "probe_random_room"
    /\ refreshed
    /\ calls = [loop |-> {"requests.get"}, thread |-> {"refresh_with_playwright"}]

\* C24: the last-scrape snapshot is always the complete output of a single
\* run: whenever bookings.json changes, the run that made the step returned,
\* and the file holds exactly that run's summaries, with that run's week or
\* title, and nothing of what it held before.
C24_SnapshotOfOneRun ==
    [][bookings_json' # bookings_json =>
          /\ scrape_out' # <<>>
          /\ ~scrape_out'.raised
          /\ bookings_json'.exists
          /\ bookings_json'.data.summaries = scrape_out'.value.summaries
          /\ IF handler'.name = "rooms"
             THEN bookings_json'.data =
                      [summaries |-> scrape_out'.value.summaries,
                       generated |-> scrape_out'.value.title]
             ELSE bookings_json'.data =
                      [summaries |-> scrape_out'.value.summaries,
                       week |-> StrDate(workweek_bounds_utc(scrape_in'.utcnow).monday)]
       ]_vars

\* the probe's run has written over the snapshot an earlier run had left
C24_Witness ==
    /\ writes >= 2
    /\ handler.name = "probe_random_room"
    /\ scrape_out # <<>>
    /\ ~scrape_out.raised
    /\ scrape_out.value.summaries # <<>>
    /\ bookings_json.data.summaries = scrape_out.value.summaries

-----------------------------------------------------------------------------
(* Claims about is_friend_booking: friend_out is its latest call *)

\* the friend id occurs in the text, letter case apart
OccursCI(fid, text) == In(lower(fid), lower(text))

\* the configured fields the booking has
ConfiguredFields(call) ==
    {call.match_fields[i] : i \in 1..Len(call.match_fields)} \cap DOMAIN call.booking

\* C25: is_friend_booking returns true whenever a configured field of the
\* booking contains a friend id, letter case apart, whatever the other fields
\* hold, and whenever the id occurs anywhere else in the record, in another
\* field or in its serialized form; so it returns false only if no friend id
\* occurs anywhere in the record.
C25_FriendMatch ==
    friend_out # <<>> =>
        /\ (\E fid \in friend_out.ids, f \in ConfiguredFields(friend_out) :
                OccursCI(fid, friend_out.booking[f])) => friend_out.result
        /\ (\E fid \in friend_out.ids, k \in DOMAIN friend_out.booking :
                OccursCI(fid, friend_out.booking[k])) => friend_out.result
        /\ (\E fid \in friend_out.ids :
                OccursCI(fid, json_dumps(friend_out.booking))) => friend_out.result

\* a booking is matched by the fallback: "s1" is in no configured field and
\* the Name field holds "S1@"
C25_Witness ==
    /\ friend_out # <<>>
    /\ friend_out.result
    /\ \A fid \in friend_out.ids, f \in ConfiguredFields(friend_out) :
           ~OccursCI(fid, friend_out.booking[f])
    /\ friend_out.booking["Name"] = <<"S", "1", "@">>
    /\ <<"s", "1">> \in friend_out.ids

\* a booking is matched on Owner alone, in another letter case
C25_OwnerOnly ==
    /\ friend_out # <<>>
    /\ friend_out.result
    /\ friend_out.booking["Owner"] = <<"S", "1", "@">>
    /\ friend_out.booking["BookerEmailAddress"] = <<>>
    /\ friend_out.booking["Name"] = <<>>
    /\ friend_out.ids = {<<"s", "1">>}

-----------------------------------------------------------------------------
(* Claims about _format_week_range: label_out is its latest call *)

\* the day of the month in two digits
TwoDigits(day) == <<DigitChar[(day \div 10) + 1], DigitChar[(day % 10) + 1]>>

\* the range the claim describes for the week of a Monday
ClaimedRange(monday_date) ==
    LET monday == DateOf(monday_date)
        fri == DateOf(monday_date + 4)
    IN  IF monday.year = fri.year /\ monday.month = fri.month
        THEN Digits(monday.day) \o <<"--">> \o Digits(fri.day) \o <<" ">>
             \o <<MonthAbbr[fri.month], " ">> \o Digits(fri.year)
        ELSE IF monday.year = fri.year
        THEN TwoDigits(monday.day) \o <<" ", MonthAbbr[monday.month], " ", "--", " ">>
             \o TwoDigits(fri.day) \o <<" ", MonthAbbr[fri.month], " ">> \o Digits(fri.year)
        ELSE TwoDigits(monday.day) \o <<" ", MonthAbbr[monday.month], " ">>
             \o Digits(monday.year) \o <<" ", "--", " ">>
             \o TwoDigits(fri.day) \o <<" ", MonthAbbr[fri.month], " ">> \o Digits(fri.year)

\* C26: _format_week_range writes one month and year when Monday and Friday
\* are in the same month, both months and one year when the months differ
\* within a year, both months and both years when the years differ, and in the
\* last two forms the day numbers in two digits ("29 Dec 2025 -- 02 Jan 2026").
C26_TwoDigitDays ==
    label_out # <<>> => label_out.text = ClaimedRange(label_out.monday)

\* the week of Monday 29 December 2025 is written "29 Dec 2025 -- 2 Jan 2026"
C26_UnpaddedFriday ==
    /\ label_out # <<>>
    /\ DateOf(label_out.monday) = [year |-> 2025, month |-> 12, day |-> 29]
    /\ label_out.text = <<"2", "9", " ", "Dec", " ", "2", "0", "2", "5", " ", "--", " ",
                          "2", " ", "Jan", " ", "2", "0", "2", "6">>

\* the months and years of the three forms are as the claim has them: the
\* text differs from the claimed one in the padding of the days at most
Unpad(text) ==
    SelectSeq([i \in 1..Len(text) |->
                  IF text[i] = "0" /\ (i = 1 \/ text[i - 1] = " ")
                  THEN "" ELSE text[i]],
              LAMBDA c : c # "")
C26_FormsApartFromPadding ==
    label_out # <<>> => label_out.text = Unpad(ClaimedRange(label_out.monday))

-----------------------------------------------------------------------------
(* Claims about the clamping in render_week_calendar *)

\* the event has a part of positive width inside the visible hours
VisiblePart(e) ==
    /\ e.start_hour < e.end_hour
    /\ e.end_hour > min_hour
    /\ e.start_hour < max_hour

\* the event, cut to the visible hours
CutToWindow(e) ==
    [e EXCEPT !.start_hour = IF e.start_hour < min_hour THEN min_hour ELSE e.start_hour,
              !.end_hour = IF e.end_hour > max_hour THEN max_hour ELSE e.end_hour]

\* the visible events of a list, each cut to the visible hours, in order
RECURSIVE CutVisible(_)
CutVisible(evs) ==
    IF evs = <<>> THEN <<>>
    ELSE IF VisiblePart(Head(evs)) THEN <<CutToWindow(Head(evs))>> \o CutVisible(Tail(evs))
    ELSE CutVisible(Tail(evs))

\* the blocks _assign_lanes was given and has placed
LaneBlocks == UNION {{placed[d][i].block : i \in 1..Len(placed[d])} : d \in Days}

C27_ZeroWidthBlock ==
    rendered /\ \E b \in LaneBlocks : b.start_hour = b.end_hour

-----------------------------------------------------------------------------
(* Claims about the snapshot of a failed scrape_week *)

\* C28: a scrape_week run that fails, on an empty roster, on the fetch of a
\* room or on a date that cannot be parsed, leaves bookings.json exactly as it
\* was before the run.
C28_FailedRunKeepsSnapshot ==
    [][(scrape_out' # <<>> /\ scrape_out'.raised) => bookings_json' = bookings_json]_vars

\* the kinds of failure of the latest call
FailedOnDates ==
    /\ Called
    /\ scrape_out.raised
    /\ scrape_in.rooms # <<>>
    /\ \A i \in 1..Len(scrape_out.log) :
           scrape_in.upstream[scrape_out.log[i]].status = 200

\* a run has fetched the bookings of one room, has failed on the dates of a
\* booking of the next, and bookings.json still holds the week of an earlier run
C28_Witness ==
    /\ FailedOnDates
    /\ Len(scrape_out.log) = 2
    /\ scrape_in.upstream[scrape_out.log[1]].items # <<>>
    /\ bookings_json.exists
    /\ bookings_json.data.summaries # <<>>
    /\ bookings_json.data.week # StrDate(workweek_bounds_utc(scrape_in.utcnow).monday)
====
